---- MODULE Spec2Model ----
(***************************************************************************)
(* Telemetry ingestion core of train_control_platform.py: the three data   *)
(* managers (sinks), the UDP receiver and the mode switch of the           *)
(* dashboard.                                                              *)
(*                                                                         *)
(* Representation.  A datagram text is modelled by the sequence of its     *)
(* comma separated fields, i.e. by data_string.strip().split(','); a field *)
(* is the text token itself.  float() is the operator Float, defined on    *)
(* the numeric tokens only and giving the value in tenths; int(float())    *)
(* is IntOfFloat.  Python's None is the empty sequence and a present       *)
(* optional value v is <<v>>.  A CSV file is the sequence of its lines, a  *)
(* line being again a field sequence.  Time is in whole seconds.           *)
(***************************************************************************)
EXTENDS Integers, Sequences, FiniteSets, TLC

\* ------------------------------------------------------------------ bounds
\* capacity of a sink's delivery queue (queue.Queue(maxsize=1000) scaled down)
QueueMaxSize == 2
\* capacity of the push-notification queue (queue.Queue(maxsize=100) scaled down)
WsMaxSize == 2
\* largest value of the clock
MaxTime == 6
\* number of add_data calls explored in the sink-level specification
MaxPackets == 3
\* number of add_data calls explored in the connection-statistics specification
MaxStatsPackets == 2
\* number of set_csv_file calls explored in the sink-level specification
MaxCsvCalls == 1
\* number of start() calls that open a socket
MaxStarts == 2
\* number of datagrams the device sends
MaxSends == 1
\* number of switch_experiment_mode calls of the UI threads together
MaxSwitches == 2

\* number of MQTT messages handled by _on_message
MaxMessages == 2

\* number of get_latest_data calls of the UI
MaxReads == 2

\* number of switch_experiment_mode calls in the lock-level specification
MaxLockSwitches == 1

\* --------------------------------------------------------------- constants
\* a connection is stale after this many seconds without a datagram
StaleAfter == 5

Kinds == {"pid", "step", "deadband"}

None == << >>
Some(v) == <<v>>

Min(a, b) == IF a < b THEN a ELSE b

\* ------------------------------------------------------------ float / int
NumericTokens ==
    {"0", "0.5", "1", "2", "8.0", "5.0", "3.0", "76.5", "60", "75",
     "100", "20.5", "25.0", "4.5", "10.0", "2.0", "45.0"}

\* float(token) in tenths; float() raises ValueError outside NumericTokens
IsNumeric(tok) == tok \in NumericTokens

Float(tok) ==
    CASE tok = "0"    -> 0
      [] tok = "0.5"  -> 5
      [] tok = "1"    -> 10
      [] tok = "2"    -> 20
      [] tok = "8.0"  -> 80
      [] tok = "5.0"  -> 50
      [] tok = "3.0"  -> 30
      [] tok = "76.5" -> 765
      [] tok = "60"   -> 600
      [] tok = "75"   -> 750
      [] tok = "100"  -> 1000
      [] tok = "20.5" -> 205
      [] tok = "25.0" -> 250
      [] tok = "4.5"  -> 45
      [] tok = "10.0" -> 100
      [] tok = "2.0"  -> 20
      [] tok = "45.0" -> 450

\* int(x) of a float in tenths: truncation toward zero
IntOfFloat(v) == IF v >= 0 THEN v \div 10 ELSE -((-v) \div 10)

\* --------------------------------------------------------------- datagrams
PidFull    == <<"100", "20.5", "25.0", "4.5", "10.0", "5.0", "2.0", "45.0">>
PidShort   == <<"100", "20.5">>
PidOne     == <<"100">>
PidBad     == <<"100", "20.5", "x">>
Step7      == <<"1", "2", "1", "8.0", "5.0", "3.0", "76.5">>
Step8      == <<"1", "2", "1", "8.0", "5.0", "3.0", "76.5", "0">>
Step6      == <<"1", "2", "1", "8.0", "5.0", "3.0">>
StepBad    == <<"1", "2", "1", "x", "5.0", "3.0", "76.5">>
StepHeaderEcho == <<"time2sinc", "time_event", "motor_dir", "v_batt",
                    "output_G", "step_input", "PWM_input", "applied_step">>
DbStill    == <<"1", "60", "2", "2", "0">>
DbMove0    == <<"1", "0", "2", "2", "1">>
DbMove60   == <<"1", "60", "2", "2", "1">>
DbMove75   == <<"2", "75", "2", "2", "1">>
DbShort    == <<"1", "60", "2", "2">>
DbBad      == <<"1", "60", "2", "2", "x">>

\* the datagrams a device in mode k sends, well formed and not
DatagramsFor(k) ==
    CASE k = "pid" -> {PidFull, PidShort, PidOne, PidBad}
      [] k = "step" -> {Step7, Step8, Step6, StepBad, StepHeaderEcho}
      [] k = "deadband" -> {DbStill, DbMove0, DbMove60, DbMove75, DbShort, DbBad}

\* the same with the deadband samples the latch does not tell apart left out
SinkDatagramsFor(k) ==
    IF k = "deadband" THEN {DbMove60, DbShort, DbBad} ELSE DatagramsFor(k)

\* one well formed and one malformed datagram of each kind
StatsDatagramsFor(k) ==
    CASE k = "pid" -> {PidFull, PidOne}
      [] k = "step" -> {Step7, StepHeaderEcho}
      [] k = "deadband" -> {DbStill, DbBad}

Datagrams == UNION {DatagramsFor(k) : k \in {"pid", "step", "deadband"}}

\* --------------------------------------------------------------- csv files
PidHeader  == <<"time_event", "input", "referencia", "error", "kp", "ki", "kd", "output_PID">>
StepHeader == <<"time2sinc", "time_event", "motor_dir", "v_batt",
                "output_G", "step_input", "PWM_input", "applied_step">>
DeadbandHeader == <<"time_ms", "pwm", "distance_cm", "initial_distance_cm", "motion_detected">>

HeaderOf(k) ==
    CASE k = "pid" -> PidHeader
      [] k = "step" -> StepHeader
      [] k = "deadband" -> DeadbandHeader

\* name of the file the code creates for kind k at second t
ExperimentCsv(t) == <<"experiment", t>>
StepCsv(t)       == <<"step_response", t>>
DeadbandCsv(t)   == <<"deadband_calibration", t>>

FreshCsv(k, t) ==
    CASE k = "pid" -> ExperimentCsv(t)
      [] k = "step" -> StepCsv(t)
      [] k = "deadband" -> DeadbandCsv(t)

VARIABLES
    now,                 \* wall clock, seconds
    sink,                \* the three data managers
    calibrated_deadband, \* DeadbandDataManager.calibrated_deadband
    deadband_history,    \* DeadbandDataManager.deadband_history
    files,               \* file system: name -> lines
    websocket_messages,  \* dashboard push-notification queue
    last_stats,          \* value returned by the last get_connection_stats
    packets,             \* number of add_data calls made so far
    csv_calls,           \* number of set_csv_file calls made so far
    data_manager,        \* UDPReceiver.data_manager: the kind of the installed sink
    data_manager_lock,   \* UDPReceiver.data_manager_lock: 0 when free, else the worker holding it
    running,             \* UDPReceiver.running
    socket,              \* UDPReceiver.socket: None, or the socket's state
    thread,              \* UDPReceiver.thread: 0 for None, else an index of workers
    workers,             \* every worker thread started so far
    rx_buffer,           \* datagrams waiting in the buffer of the bound socket
    sent,                \* number of datagrams the device has sent
    starts,              \* number of start() calls that got past the running test
    start_result,        \* what the last start() returned
    ui_pc,               \* where each UI thread is
    experiment_mode,     \* TrainControlDashboard.experiment_mode
    mode_switch_lock,    \* mqtt_sync.mode_switch_lock: "free" or the thread holding it
    new_mode,            \* the argument of each thread's switch_experiment_mode call
    switch_returns,      \* how many switch_experiment_mode calls each thread has returned from
    selected_ip,         \* network_manager.selected_ip is set
    published,           \* the (topic key, payload) pairs handed to the MQTT broker
    confirmed_params,    \* MQTTParameterSync.confirmed_params
    step_confirmed_params, \* MQTTParameterSync.step_confirmed_params
    params_delivered,    \* the arguments of the on_params_updated calls, in order
    mqtt_messages,       \* how many messages _on_message has handled
    data_lock,           \* each sink's data_lock: "free" or the thread holding it
    ingest,              \* each direct add_data caller: where it is, sink, datagram,
                         \* the total_packets value its own increment produced and
                         \* how many history lists it has appended to
    switch_result,       \* what each thread's last switch_experiment_mode call returned
    csv_setter,          \* the thread inside set_csv_file: where it is, sink, file name
                         \* and what the file held when it became the log target
    mqtt_client,         \* MQTTParameterSync.client: 0 is None, else the client's number
    mqtt_loops,          \* the clients whose network loop is running
    reads                \* number of get_latest_data calls made

sinkVars == <<now, sink, calibrated_deadband, deadband_history, files,
              websocket_messages, last_stats, packets, csv_calls>>

recvVars == <<data_manager, data_manager_lock, running, socket, thread,
              workers, rx_buffer, sent, starts, start_result>>

mqttVars == <<published, confirmed_params, step_confirmed_params, params_delivered,
              mqtt_messages>>

lockVars == <<data_lock, ingest>>

callVars == <<switch_result, csv_setter, mqtt_client, mqtt_loops, reads>>

otherVars == <<mqttVars, lockVars, callVars>>

modeVars == <<experiment_mode, mode_switch_lock, new_mode, switch_returns, selected_ip,
              otherVars>>

uiVars == <<ui_pc, modeVars>>

vars == <<sinkVars, recvVars, uiVars>>

\* the UI threads (dash callbacks run on the server's request threads)
Callers == {"ui1", "ui2"}

\* ------------------------------------------------------------ constructors
EmptyDict == [empty |-> TRUE]

\* DataManager.__init__
NewSink ==
    [ data_queue        |-> << >>,
      latest_data       |-> EmptyDict,
      experiment_active |-> FALSE,
      csv_file          |-> None,
      initialized       |-> FALSE,
      total_packets     |-> 0,
      last_packet_time  |-> None,
      connection_status |-> "Waiting for data" ]

\* DeadbandDataManager.__init__ / clear_history: the five per-field lists
EmptyHistory ==
    [ time |-> << >>, pwm |-> << >>, distance |-> << >>,
      initial_distance |-> << >>, motion_detected |-> << >> ]

\* sinks whose websocket_callback is set by the dashboard (setup_layout)
HasCallback(k) == k \in {"pid", "step"}

\* the mutable world an ingest works on
World == [ sink |-> sink, files |-> files, ws |-> websocket_messages,
           cal |-> calibrated_deadband, hist |-> deadband_history ]


\* ---------------------------------------------------------------- parsing
\* float(data_parts[i]) if len(data_parts) > i-1 else None
OptFloat(d, i) == IF Len(d) >= i THEN Some(Float(d[i])) ELSE None

\* no float() of DataManager.add_data raises ValueError on d (field 1 is kept as text)
PidFieldsOk(d) == \A i \in 2..Min(Len(d), 8) : IsNumeric(d[i])

\* the dict DataManager.add_data builds; n is total_packets
PidRecord(d, n) ==
    [ timestamp    |-> d[1],
      distance     |-> Float(d[2]),
      referencia   |-> OptFloat(d, 3),
      error        |-> OptFloat(d, 4),
      kp           |-> OptFloat(d, 5),
      ki           |-> OptFloat(d, 6),
      kd           |-> OptFloat(d, 7),
      output_pid   |-> OptFloat(d, 8),
      full_data    |-> d,
      packet_count |-> n ]

\* data_string.strip().startswith('time2sinc')
IsHeaderEcho(d) == d[1] = "time2sinc"

\* no float() of StepResponseDataManager.add_data raises ValueError on d
StepFieldsOk(d) == \A i \in 1..Min(Len(d), IF Len(d) >= 8 THEN 8 ELSE 7) : IsNumeric(d[i])

\* applied_step always read from step_input
AppliedStepFieldOld(d) == 6

\* index of the field applied_step is read from: field 8, or step_input for old firmware
AppliedStepField(d) == IF Len(d) >= 8 THEN 8 ELSE 6

\* the dict StepResponseDataManager.add_data builds (both branches)
StepRecord(d, n) ==
    [ time2sinc    |-> Float(d[1]),
      time_event   |-> Float(d[2]),
      motor_dir    |-> IntOfFloat(Float(d[3])),
      v_batt       |-> Float(d[4]),
      output_G     |-> Float(d[5]),
      step_input   |-> Float(d[6]),
      PWM_input    |-> Float(d[7]),
      applied_step |-> Float(d[AppliedStepField(d)]),
      full_data    |-> d,
      packet_count |-> n ]

\* no float() of DeadbandDataManager.add_data raises ValueError on d
DeadbandFieldsOk(d) == \A i \in 1..Min(Len(d), 5) : IsNumeric(d[i])

\* the dict DeadbandDataManager.add_data builds
DeadbandRecord(d, n) ==
    [ time             |-> Float(d[1]),
      pwm              |-> IntOfFloat(Float(d[2])),
      distance         |-> Float(d[3]),
      initial_distance |-> Float(d[4]),
      motion_detected  |-> IntOfFloat(Float(d[5])),
      full_data        |-> d,
      packet_count     |-> n ]

\* minimum number of fields each add_data asks for
MinFields(k) ==
    CASE k = "pid" -> 2
      [] k = "step" -> 7
      [] k = "deadband" -> 5

FieldsOk(k, d) ==
    CASE k = "pid" -> PidFieldsOk(d)
      [] k = "step" -> StepFieldsOk(d)
      [] k = "deadband" -> DeadbandFieldsOk(d)

RecordOf(k, d, n) ==
    CASE k = "pid" -> PidRecord(d, n)
      [] k = "step" -> StepRecord(d, n)
      [] k = "deadband" -> DeadbandRecord(d, n)

\* the 'type' of the push notification of each add_data
UpdateType(k) ==
    CASE k = "pid" -> "data_update"
      [] k = "step" -> "step_data_update"
      [] k = "deadband" -> "deadband_data_update"

\* add_data gets past its parsing: enough fields, no ValueError, no header echo
Parses(k, d) ==
    /\ ~(k = "step" /\ IsHeaderEcho(d))
    /\ Len(d) >= MinFields(k)
    /\ FieldsOk(k, d)


\* ----------------------------------------------------------- file system
Exists(fs, f) == f \in DOMAIN fs

\* open(f, 'w') + writerow(header): the file is created or truncated
WriteNew(fs, f, header) == (f :> <<header>>) @@ fs

\* open(f, 'a') + write(line): the file is created when it does not exist
AppendLine(fs, f, line) ==
    (f :> Append(IF Exists(fs, f) THEN fs[f] ELSE << >>, line)) @@ fs

\* --------------------------------------------------------- sink operations
\* dashboard._push_websocket_message: put_nowait, the message is dropped on queue.Full
PushWebsocket(ws, msg) == IF Len(ws) < WsMaxSize THEN Append(ws, msg) ELSE ws

\* "Update statistics": the first three statements of every add_data
UpdateStatistics(s, t) ==
    [s EXCEPT !.total_packets = @ + 1,
              !.last_packet_time = Some(t),
              !.connection_status = "Connected"]

\* a queue that makes room by dropping its oldest entry
QueuePutDropOldest(q, item) ==
    IF Len(q) < QueueMaxSize THEN Append(q, item) ELSE Append(Tail(q), item)

\* if not self.data_queue.full(): self.data_queue.put(self.latest_data)
QueuePut(q, item) == IF Len(q) < QueueMaxSize THEN Append(q, item) ELSE q

\* deadband_history[...].append(...) for the five lists
HistoryAppend(h, rec) ==
    [ time             |-> Append(h.time, rec.time),
      pwm              |-> Append(h.pwm, rec.pwm),
      distance         |-> Append(h.distance, rec.distance),
      initial_distance |-> Append(h.initial_distance, rec.initial_distance),
      motion_detected  |-> Append(h.motion_detected, rec.motion_detected) ]

\* if latest_data['motion_detected'] == 1 and calibrated_deadband == 0: latch the pwm
LatchDeadband(cal, rec) ==
    IF rec.motion_detected = 1 /\ cal = 0 THEN rec.pwm ELSE cal

\* the part of add_data after a successful parse, on world w:
\* latest_data, (deadband: history and latch), queue, notification, csv append.
\* ioFail: the append to the csv file raises (caught and printed by add_data)
StoreSample(w, k, d, ioFail) ==
    LET s   == w.sink[k]
        rec == RecordOf(k, d, s.total_packets)
    IN [ sink  |-> [w.sink EXCEPT ![k] =
                      [s EXCEPT !.latest_data = rec,
                                !.data_queue = QueuePut(@, rec)]],
         hist  |-> IF k = "deadband" THEN HistoryAppend(w.hist, rec) ELSE w.hist,
         cal   |-> IF k = "deadband" THEN LatchDeadband(w.cal, rec) ELSE w.cal,
         ws    |-> IF HasCallback(k)
                     THEN PushWebsocket(w.ws, [type |-> UpdateType(k), data |-> rec])
                     ELSE w.ws,
         files |-> IF s.csv_file # None /\ ~ioFail
                     THEN AppendLine(w.files, s.csv_file[1], d)
                     ELSE w.files ]

\* the statistics update of add_data on world w at time t
CountPacket(w, k, t) == [w EXCEPT !.sink[k] = UpdateStatistics(@, t)]

\* the rest of add_data: header echo, too few fields and ValueError leave w alone
ParseAndStore(w, k, d, ioFail) ==
    IF Parses(k, d) THEN StoreSample(w, k, d, ioFail) ELSE w

\* an exception of the callback that leaves add_data's inner try block
CallbackErrorEscapes == FALSE

\* 'try: self.websocket_callback(...) except: pass'
CallbackErrorSwallowed == TRUE

\* StoreSample when the websocket callback raises: nothing is pushed; the csv
\* append follows only if the exception is swallowed (otherwise the outer
\* 'except Exception' of add_data ends the call)
StoreSampleCallbackRaises(w, k, d, ioFail) ==
    LET r == StoreSample(w, k, d, ioFail)
    IN IF HasCallback(k)
       THEN [r EXCEPT !.ws = w.ws,
                      !.files = IF CallbackErrorSwallowed THEN r.files ELSE w.files]
       ELSE r

\* the rest of add_data when the websocket callback raises
ParseAndStoreCallbackRaises(w, k, d, ioFail) ==
    IF Parses(k, d) THEN StoreSampleCallbackRaises(w, k, d, ioFail) ELSE w

\* a whole add_data call (its body runs under the sink's data_lock)
AddData(w, k, d, t, ioFail) == ParseAndStore(CountPacket(w, k, t), k, d, ioFail)

\* set_csv_file of the three managers on world w; ioFail: open(filename, 'w') raises
SetCsvFile(w, k, f, ioFail) ==
    [w EXCEPT !.sink[k].csv_file = Some(f),
              !.sink[k].initialized = ~ioFail,
              !.files = IF ioFail THEN @ ELSE WriteNew(@, f, HeaderOf(k))]

\* staleness tested with >= instead of >
StatusAtInclusive(s, t) ==
    IF s.last_packet_time # None /\ t - s.last_packet_time[1] >= StaleAfter
        THEN "Connection lost"
        ELSE s.connection_status

\* the status get_connection_stats derives at time t
StatusAt(s, t) ==
    IF s.last_packet_time # None /\ t - s.last_packet_time[1] > StaleAfter
        THEN "Connection lost"
        ELSE s.connection_status

\* strftime("%H:%M:%S") of a time given in seconds: hour, minute, second
Strftime(t) == <<(t \div 3600) % 24, (t \div 60) % 60, t % 60>>

\* the dict get_connection_stats returns at time t
ConnectionStats(s, t) ==
    [ status            |-> StatusAt(s, t),
      total_packets     |-> s.total_packets,
      last_packet_time  |-> IF s.last_packet_time = None THEN None
                            ELSE Some(Strftime(s.last_packet_time[1])),
      experiment_active |-> s.experiment_active ]

\* assignment of a world to the variables it is made of
Commit(w) ==
    /\ sink' = w.sink
    /\ files' = w.files
    /\ websocket_messages' = w.ws
    /\ calibrated_deadband' = w.cal
    /\ deadband_history' = w.hist


\* the state after construction (module level: DataManager(), UDPReceiver(data_manager),
\* TrainControlDashboard(...))
Init ==
    /\ data_manager = "pid"
    /\ data_manager_lock = 0
    /\ running = FALSE
    /\ socket = None
    /\ thread = 0
    /\ workers = << >>
    /\ rx_buffer = << >>
    /\ sent = 0
    /\ starts = 0
    /\ start_result = None
    /\ ui_pc = [c \in Callers |-> "idle"]
    /\ experiment_mode = "pid"
    /\ mode_switch_lock = "free"
    /\ new_mode = [c \in Callers |-> "pid"]
    /\ switch_returns = [c \in Callers |-> 0]
    /\ selected_ip = FALSE
    /\ published = {}
    /\ confirmed_params = [kp |-> None, ki |-> None, kd |-> None, reference |-> None]
    /\ step_confirmed_params =
           [amplitude |-> None, time |-> None, direction |-> None, vbatt |-> None]
    /\ params_delivered = << >>
    /\ mqtt_messages = 0
    /\ data_lock = [k \in Kinds |-> "free"]
    /\ ingest = [c \in Callers |->
                     [pc |-> "idle", k |-> "pid", d |-> << >>, n |-> 0, fields |-> 0]]
    /\ switch_result = [c \in Callers |-> "unset"]
    /\ csv_setter = [pc |-> "idle", k |-> "pid", f |-> << >>, had |-> << >>]
    /\ mqtt_client = 0
    /\ mqtt_loops = {}
    /\ reads = 0
    /\ now = 0
    /\ sink = [k \in Kinds |-> NewSink]
    /\ calibrated_deadband = 0
    /\ deadband_history = EmptyHistory
    /\ files = << >>
    /\ websocket_messages = << >>
    /\ last_stats = None
    /\ packets = 0
    /\ csv_calls = 0

\* ------------------------------------------------ sink-level specification
\* The operations of the three data managers, called one after the other.

\* time passes
Tick ==
    /\ now < MaxTime
    /\ now' = now + 1
    /\ UNCHANGED <<sink, calibrated_deadband, deadband_history, files,
                   websocket_messages, last_stats, packets, csv_calls>>
    /\ UNCHANGED <<recvVars, uiVars>>

\* DataManager / StepResponseDataManager / DeadbandDataManager .add_data(data_string)
add_data(k, d, ioFail) ==
    /\ packets < MaxPackets
    /\ packets' = packets + 1
    /\ Commit(AddData(World, k, d, now, ioFail))
    /\ UNCHANGED <<now, last_stats, csv_calls>>
    /\ UNCHANGED <<recvVars, uiVars>>

\* data_queue.get_nowait() by a consumer of the queue
queue_get(k) ==
    /\ sink[k].data_queue # << >>
    /\ sink' = [sink EXCEPT ![k].data_queue = Tail(@)]
    /\ UNCHANGED <<now, calibrated_deadband, deadband_history, files,
                   websocket_messages, last_stats, packets, csv_calls>>
    /\ UNCHANGED <<recvVars, uiVars>>

\* set_csv_file(filename) with the file names the callers build
set_csv_file(k, f, ioFail) ==
    /\ csv_calls < MaxCsvCalls
    /\ csv_calls' = csv_calls + 1
    /\ Commit(SetCsvFile(World, k, f, ioFail))
    /\ UNCHANGED <<now, last_stats, packets>>
    /\ UNCHANGED <<recvVars, uiVars>>

\* get_connection_stats(): a read; the model records what it returned
get_connection_stats(k) ==
    /\ last_stats' = Some(ConnectionStats(sink[k], now))
    /\ UNCHANGED <<now, sink, calibrated_deadband, deadband_history, files,
                   websocket_messages, packets, csv_calls>>
    /\ UNCHANGED <<recvVars, uiVars>>

\* DeadbandDataManager.clear_history()
clear_history ==
    /\ deadband_history' = EmptyHistory
    /\ calibrated_deadband' = 0
    /\ UNCHANGED <<now, sink, files, websocket_messages, last_stats, packets, csv_calls>>
    /\ UNCHANGED <<recvVars, uiVars>>

\* start_experiment() / stop_experiment()
start_experiment(k) ==
    /\ sink' = [sink EXCEPT ![k].experiment_active = TRUE]
    /\ UNCHANGED <<now, calibrated_deadband, deadband_history, files,
                   websocket_messages, last_stats, packets, csv_calls>>
    /\ UNCHANGED <<recvVars, uiVars>>

stop_experiment(k) ==
    /\ sink' = [sink EXCEPT ![k].experiment_active = FALSE]
    /\ UNCHANGED <<now, calibrated_deadband, deadband_history, files,
                   websocket_messages, last_stats, packets, csv_calls>>
    /\ UNCHANGED <<recvVars, uiVars>>

SinkNext ==
    \/ \E k \in Kinds : \E d \in SinkDatagramsFor(k) : add_data(k, d, FALSE)
    \/ \E k \in Kinds : queue_get(k)
    \/ \E k \in Kinds, ioFail \in BOOLEAN : set_csv_file(k, FreshCsv(k, now), ioFail)

SinkSpec == Init /\ [][SinkNext]_vars

\* ------------------------------------------------- deadband calibration view
\* The deadband manager during calibration runs: samples arrive, the queue is
\* read, the history is cleared for a new run.
DeadbandNext ==
    \/ \E d \in DatagramsFor("deadband") : add_data("deadband", d, FALSE)
    \/ queue_get("deadband")
    \/ clear_history

DeadbandSpec == Init /\ [][DeadbandNext]_vars

\* ---------------------------------------------- connection-statistics view
\* The sinks as the status display sees them: datagrams arrive, time passes,
\* experiments are started and stopped, the statistics are read.
StatsNext ==
    \/ Tick
    \/ \E k \in Kinds : \E d \in StatsDatagramsFor(k) :
           packets < MaxStatsPackets /\ add_data(k, d, FALSE)
    \/ \E k \in Kinds : get_connection_stats(k)
    \/ start_experiment("pid")
    \/ stop_experiment("pid")

StatsSpec == Init /\ [][StatsNext]_vars


\* ------------------------------------------------------------ UDP receiver
\* bytes that are not valid UTF-8: data.decode('utf-8') raises UnicodeDecodeError
InvalidUtf8 == <<"<invalid utf-8>">>

IsUtf8(p) == p # InvalidUtf8

\* what the device sends in the receiver-level specifications
RecvDatagrams == {PidFull, PidOne, InvalidUtf8}

\* a worker thread when threading.Thread(target=self._receive_loop).start() returns
NewWorker == [pc |-> "loop", data |-> None, dm |-> "none"]

\* socket.socket(AF_INET, SOCK_DGRAM) followed by bind(); a socket the receiver
\* no longer refers to is closed by the interpreter when its last user is gone
NewSocket(bound) == Some([open |-> TRUE, bound |-> bound])

\* the receiver's socket is open and bound to its port
BoundSocket(sk) == sk # None /\ sk[1].open /\ sk[1].bound

\* 'if self.socket: self.socket.close()'; closing twice is harmless
CloseSocket(sk) == IF sk = None THEN sk ELSE Some([sk[1] EXCEPT !.open = FALSE])

\* a start() without the running test
NeverRunning(r) == FALSE

\* start() gives up at once: 'if self.running: return False'
AlreadyRunning(r) == r

\* a set_data_manager that does not wait for the lock
CanSwapUnlocked(lock) == TRUE

\* 'with self.data_manager_lock' of set_data_manager can be entered
CanSwap(lock) == lock = 0

\* current_csv and os.path.exists(current_csv), for the installed sink
HasCsv(w, k) == w.sink[k].csv_file # None /\ Exists(w.files, w.sink[k].csv_file[1])

\* the first part of start(): a csv file for the installed sink if it has none
EnsureCsv(w, k, t, ioFail) ==
    IF HasCsv(w, k) THEN w ELSE SetCsvFile(w, k, ExperimentCsv(t), ioFail)

\* UDPReceiver.start(); bindFail: the port is taken by another process
start(bindFail, ioFail) ==
    IF AlreadyRunning(running)
    THEN /\ start_result' = Some(FALSE)
         /\ UNCHANGED sinkVars
         /\ UNCHANGED <<data_manager, data_manager_lock, running, socket,
                        thread, workers, rx_buffer, sent, starts>>
    ELSE /\ starts < MaxStarts
         /\ starts' = starts + 1
         /\ Commit(EnsureCsv(World, data_manager, now, ioFail))
         /\ socket' = NewSocket(~bindFail)
         /\ rx_buffer' = << >>
         /\ IF bindFail
            THEN /\ start_result' = Some(FALSE)
                 /\ UNCHANGED <<running, thread, workers>>
            ELSE /\ running' = TRUE
                 /\ thread' = Len(workers) + 1
                 /\ workers' = Append(workers, NewWorker)
                 /\ start_result' = Some(TRUE)
         /\ UNCHANGED <<now, last_stats, packets, csv_calls>>
         /\ UNCHANGED <<data_manager, data_manager_lock, sent>>

\* a stop() that neither clears running nor closes the socket
stop_noop == UNCHANGED <<sinkVars, recvVars>>

\* UDPReceiver.stop() up to the join: running = False, the socket is closed
\* (the datagrams waiting in its buffer are gone)
stop ==
    /\ running' = FALSE
    /\ socket' = CloseSocket(socket)
    /\ rx_buffer' = << >>
    /\ UNCHANGED sinkVars
    /\ UNCHANGED <<data_manager, data_manager_lock, thread, workers,
                   sent, starts, start_result>>

\* a UI thread calls stop(); 'if self.thread: self.thread.join(timeout=2)'
stop_begin(c) ==
    /\ ui_pc[c] = "idle"
    /\ stop
    /\ ui_pc' = [ui_pc EXCEPT ![c] = IF thread # 0 THEN "join" ELSE "idle"]
    /\ UNCHANGED modeVars

\* self.thread.join(timeout=2) returns: the worker has ended or 2 s have passed
stop_join(c) ==
    /\ ui_pc[c] = "join"
    /\ ui_pc' = [ui_pc EXCEPT ![c] = "idle"]
    /\ UNCHANGED modeVars
    /\ UNCHANGED sinkVars
    /\ UNCHANGED <<data_manager, data_manager_lock, running, socket, thread,
                   workers, rx_buffer, sent, starts, start_result>>

\* UDPReceiver.set_data_manager(k): the assignment under data_manager_lock
set_data_manager(k) ==
    /\ CanSwap(data_manager_lock)
    /\ data_manager' = k
    /\ UNCHANGED sinkVars
    /\ UNCHANGED <<data_manager_lock, running, socket, thread, workers,
                   rx_buffer, sent, starts, start_result>>

\* the device sends a datagram to the receiver's port
send(p) ==
    /\ sent < MaxSends
    /\ BoundSocket(socket)
    /\ sent' = sent + 1
    /\ rx_buffer' = Append(rx_buffer, p)
    /\ UNCHANGED sinkVars
    /\ UNCHANGED <<data_manager, data_manager_lock, running, socket, thread,
                   workers, starts, start_result>>
    /\ UNCHANGED uiVars

\* a loop that ends on the first receive timeout
AfterTimeoutBreak == "done"

\* where the loop goes after socket.timeout: 'continue'
AfterTimeout == "loop"

\* _receive_loop: 'while self.running'
receive_loop_test(i) ==
    /\ workers[i].pc = "loop"
    /\ workers' = [workers EXCEPT ![i].pc = IF running THEN "recv" ELSE "done"]
    /\ UNCHANGED sinkVars
    /\ UNCHANGED <<data_manager, data_manager_lock, running, socket, thread,
                   rx_buffer, sent, starts, start_result>>
    /\ UNCHANGED uiVars

\* _receive_loop: self.socket.recvfrom(1024) and data.decode('utf-8').
\* closed socket: OSError, break.  nothing within 1 s: socket.timeout, continue.
\* bytes that do not decode: UnicodeDecodeError, caught by 'except Exception', break.
receive_loop_recv(i) ==
    /\ workers[i].pc = "recv"
    /\ IF ~socket[1].open
       THEN /\ workers' = [workers EXCEPT ![i].pc = "done"]
            /\ UNCHANGED rx_buffer
       ELSE IF rx_buffer = << >>
       THEN /\ workers' = [workers EXCEPT ![i].pc = AfterTimeout]
            /\ UNCHANGED rx_buffer
       ELSE /\ rx_buffer' = Tail(rx_buffer)
            /\ workers' = [workers EXCEPT ![i] =
                  IF IsUtf8(Head(rx_buffer))
                  THEN [@ EXCEPT !.pc = "acquire", !.data = Some(Head(rx_buffer))]
                  ELSE [@ EXCEPT !.pc = "done"]]
    /\ UNCHANGED sinkVars
    /\ UNCHANGED <<data_manager, data_manager_lock, running, socket, thread,
                   sent, starts, start_result>>
    /\ UNCHANGED uiVars

\* _receive_loop: 'with self.data_manager_lock' is entered
receive_loop_acquire(i) ==
    /\ workers[i].pc = "acquire"
    /\ data_manager_lock = 0
    /\ data_manager_lock' = i
    /\ workers' = [workers EXCEPT ![i].pc = "call"]
    /\ UNCHANGED sinkVars
    /\ UNCHANGED <<data_manager, running, socket, thread,
                   rx_buffer, sent, starts, start_result>>
    /\ UNCHANGED uiVars

\* _receive_loop: self.data_manager.add_data(data_string) is called; the sink is
\* the one installed now, and add_data updates its statistics
receive_loop_call(i) ==
    /\ workers[i].pc = "call"
    /\ workers' = [workers EXCEPT ![i].pc = "store", ![i].dm = data_manager]
    /\ Commit(CountPacket(World, data_manager, now))
    /\ packets' = packets + 1
    /\ UNCHANGED <<now, last_stats, csv_calls>>
    /\ UNCHANGED <<data_manager, data_manager_lock, running, socket, thread,
                   rx_buffer, sent, starts, start_result>>
    /\ UNCHANGED uiVars

\* _receive_loop: add_data parses and stores, returns, and the lock is released
receive_loop_store(i, ioFail) ==
    /\ workers[i].pc = "store"
    /\ Commit(ParseAndStore(World, workers[i].dm, workers[i].data[1], ioFail))
    /\ workers' = [workers EXCEPT ![i] = NewWorker]
    /\ data_manager_lock' = 0
    /\ UNCHANGED <<now, last_stats, packets, csv_calls>>
    /\ UNCHANGED <<data_manager, running, socket, thread,
                   rx_buffer, sent, starts, start_result>>
    /\ UNCHANGED uiVars

\* receive_loop_store with a websocket callback that raises
receive_loop_store_callback_raises(i) ==
    /\ workers[i].pc = "store"
    /\ Commit(ParseAndStoreCallbackRaises(World, workers[i].dm, workers[i].data[1], FALSE))
    /\ workers' = [workers EXCEPT ![i] = NewWorker]
    /\ data_manager_lock' = 0
    /\ UNCHANGED <<now, last_stats, packets, csv_calls>>
    /\ UNCHANGED <<data_manager, running, socket, thread,
                   rx_buffer, sent, starts, start_result>>
    /\ UNCHANGED uiVars

\* ----------------------------------------------- receiver-level specification
\* The receiver driven directly: UI threads start and stop it and install
\* sinks while the device sends and the worker receives.
RecvNext ==
    \/ \E bindFail \in BOOLEAN : start(bindFail, FALSE) /\ UNCHANGED uiVars
    \/ stop_begin("ui1")
    \/ stop_join("ui1")
    \/ \E k \in Kinds : ui_pc["ui1"] = "idle" /\ set_data_manager(k) /\ UNCHANGED uiVars
    \/ \E p \in RecvDatagrams : send(p)
    \/ \E i \in 1..Len(workers) : receive_loop_test(i)
    \/ \E i \in 1..Len(workers) : receive_loop_recv(i)
    \/ \E i \in 1..Len(workers) : receive_loop_acquire(i)
    \/ \E i \in 1..Len(workers) : receive_loop_call(i)
    \/ \E i \in 1..Len(workers) : receive_loop_store(i, FALSE)

RecvSpec == Init /\ [][RecvNext]_vars

\* ------------------------------------------------------ end-to-end scenario
\* The receiver is started and left running while the device sends; the
\* status display reads the control sink's statistics.  Once started, the
\* worker thread is scheduled again and again.
WorkerStep ==
    \E i \in 1..Len(workers) :
        \/ receive_loop_test(i)
        \/ receive_loop_recv(i)
        \/ receive_loop_acquire(i)
        \/ receive_loop_call(i)
        \/ receive_loop_store(i, FALSE)

E2ENext ==
    \/ \E bindFail \in BOOLEAN : start(bindFail, FALSE) /\ UNCHANGED uiVars
    \/ \E p \in RecvDatagrams : send(p)
    \/ \E i \in 1..Len(workers) : receive_loop_test(i)
    \/ \E i \in 1..Len(workers) : receive_loop_recv(i)
    \/ \E i \in 1..Len(workers) : receive_loop_acquire(i)
    \/ \E i \in 1..Len(workers) : receive_loop_call(i)
    \/ \E i \in 1..Len(workers) : receive_loop_store(i, FALSE)
    \/ get_connection_stats("pid")
    \/ Tick

E2ESpec == Init /\ [][E2ENext]_vars /\ WF_vars(WorkerStep)

\* ------------------------------------------------------- stopping scenario
\* The receiver is started and stopped while the device sends.  Every worker
\* thread that has been started is scheduled again and again, and the join of
\* stop() gives up after its timeout.  One UI thread makes the calls.
WorkerStepOf(i) ==
    /\ i \in 1..Len(workers)
    /\ \/ receive_loop_test(i)
       \/ receive_loop_recv(i)
       \/ receive_loop_acquire(i)
       \/ receive_loop_call(i)
       \/ receive_loop_store(i, FALSE)

StopNext ==
    \/ \E bindFail \in BOOLEAN :
           ui_pc["ui1"] = "idle" /\ start(bindFail, FALSE) /\ UNCHANGED uiVars
    \/ stop_begin("ui1")
    \/ stop_join("ui1")
    \/ \E p \in {PidFull, PidOne} : send(p)
    \/ \E i \in 1..Len(workers) : receive_loop_test(i)
    \/ \E i \in 1..Len(workers) : receive_loop_recv(i)
    \/ \E i \in 1..Len(workers) : receive_loop_acquire(i)
    \/ \E i \in 1..Len(workers) : receive_loop_call(i)
    \/ \E i \in 1..Len(workers) : receive_loop_store(i, FALSE)

StopSpec ==
    /\ Init /\ [][StopNext]_vars
    /\ \A i \in 1..(MaxStarts + 1) : WF_vars(WorkerStepOf(i))
    /\ WF_vars(stop_join("ui1"))

\* ------------------------------------------------ failing-callback scenario
\* The receiver ingests into the control or the step sink while the
\* callback installed on the sinks may raise.
CallbackNext ==
    \/ start(FALSE, FALSE) /\ UNCHANGED uiVars
    \/ \E k \in {"pid", "step"} :
           ui_pc["ui1"] = "idle" /\ set_data_manager(k) /\ UNCHANGED uiVars
    \/ \E p \in {PidFull, PidOne, Step7} : send(p)
    \/ \E i \in 1..Len(workers) : receive_loop_test(i)
    \/ \E i \in 1..Len(workers) : receive_loop_recv(i)
    \/ \E i \in 1..Len(workers) : receive_loop_acquire(i)
    \/ \E i \in 1..Len(workers) : receive_loop_call(i)
    \/ \E i \in 1..Len(workers) : receive_loop_store(i, FALSE)
    \/ \E i \in 1..Len(workers) : receive_loop_store_callback_raises(i)

CallbackSpec == Init /\ [][CallbackNext]_vars

\* ---------------------------------------------------- switch_experiment_mode
\* One UI thread's call runs as a sequence of steps, ui_pc[c] saying where it
\* is.  The MQTT publications and the sleeps of the body reach the device only
\* and leave the program's state alone.

\* a 'with' statement that does not wait for mode_switch_lock
EnterUnlocked(lock) == TRUE

\* 'with self.mqtt_sync.mode_switch_lock' can be entered
CanEnterSwitch(lock) == lock = "free"

\* the positions inside the body of switch_experiment_mode
SwitchBody == {"sw_noop", "sw_publish", "sw_stop", "sw_join", "sw_clear_pid", "sw_clear_step", "sw_csv",
               "sw_set_dm", "sw_set_mode", "sw_restart", "sw_push", "sw_return"}

\* the calls made so far: those returned from and those under way
SwitchCalls ==
    LET n(c) == switch_returns[c] + (IF ui_pc[c] \in SwitchBody THEN 1 ELSE 0)
    IN n("ui1") + n("ui2")

\* move thread c to position pc
Goto(c, pc) == ui_pc' = [ui_pc EXCEPT ![c] = pc]

\* a switch that never takes the early return
NeverSameMode(m, mode) == FALSE

\* 'if new_mode == self.experiment_mode'
IsSameMode(m, mode) == m = mode

\* the call: the lock is taken; 'if new_mode == self.experiment_mode: return'
switch_enter(c, m) ==
    /\ ui_pc[c] = "idle"
    /\ SwitchCalls < MaxSwitches
    /\ CanEnterSwitch(mode_switch_lock)
    /\ mode_switch_lock' = c
    /\ new_mode' = [new_mode EXCEPT ![c] = m]
    /\ Goto(c, IF IsSameMode(m, experiment_mode) THEN "sw_noop" ELSE "sw_publish")
    /\ UNCHANGED <<experiment_mode, switch_returns, selected_ip, otherVars>>
    /\ UNCHANGED <<sinkVars, recvVars>>

\* the publish that stops the mode being left (none when leaving deadband:
\* the deadband_sync publish is commented out)
StopPublishes(old) ==
    CASE old = "pid" -> << <<"sync", "False">> >>
      [] old = "step" -> << <<"step_sync", "False">> >>
      [] old = "deadband" -> << >>

\* the publishes that prepare the new mode: step defaults, or a parameter request
SetupPublishes(new) ==
    CASE new = "step" -> << <<"step_amplitude", "3.0">>, <<"step_time", "2.0">>,
                            <<"step_direction", "1">>, <<"step_vbatt", "8.4">> >>
      [] new = "pid" -> << <<"request_params", "1">> >>
      [] new = "deadband" -> << >>

\* everything the try block of switch_experiment_mode publishes, in order
SwitchPublishes(old, new) == StopPublishes(old) \o SetupPublishes(new)

\* an exception of publish.single that leaves switch_experiment_mode
PublishErrorEscapes == FALSE

\* 'except Exception as e: print(...)' around the publishes
PublishErrorCaught == TRUE

\* the try block with the MQTT publishes: the first n go through, the next
\* one (if any is left) raises
switch_publish(c, n) ==
    LET msgs == SwitchPublishes(experiment_mode, new_mode[c])
    IN /\ ui_pc[c] = "sw_publish"
       /\ n \in 0..Len(msgs)
       /\ published' = published \cup {msgs[j] : j \in 1..n}
       /\ IF n < Len(msgs) /\ ~PublishErrorCaught
          THEN /\ mode_switch_lock' = "free"
               /\ switch_returns' = [switch_returns EXCEPT ![c] = @ + 1]
               /\ Goto(c, "idle")
          ELSE /\ Goto(c, "sw_stop")
               /\ UNCHANGED <<mode_switch_lock, switch_returns>>
       /\ UNCHANGED <<experiment_mode, new_mode, selected_ip>>
       /\ UNCHANGED <<confirmed_params, step_confirmed_params, params_delivered,
                      mqtt_messages, lockVars, callVars>>
       /\ UNCHANGED <<sinkVars, recvVars>>

\* 'if self.udp_receiver.running: self.udp_receiver.stop()'
switch_stop(c) ==
    /\ ui_pc[c] = "sw_stop"
    /\ IF running
       THEN /\ stop
            /\ Goto(c, IF thread # 0 THEN "sw_join" ELSE "sw_clear_pid")
       ELSE /\ Goto(c, "sw_clear_pid")
            /\ UNCHANGED <<sinkVars, recvVars>>
    /\ UNCHANGED modeVars

\* the join of stop() and the sleep after it are over
switch_join(c) ==
    /\ ui_pc[c] = "sw_join"
    /\ Goto(c, "sw_clear_pid")
    /\ UNCHANGED modeVars
    /\ UNCHANGED <<sinkVars, recvVars>>

\* 'while not self.data_manager.data_queue.empty(): get_nowait()'
switch_clear_pid(c) ==
    /\ ui_pc[c] = "sw_clear_pid"
    /\ sink' = [sink EXCEPT !["pid"].data_queue = << >>]
    /\ Goto(c, "sw_clear_step")
    /\ UNCHANGED <<now, calibrated_deadband, deadband_history, files,
                   websocket_messages, last_stats, packets, csv_calls>>
    /\ UNCHANGED modeVars
    /\ UNCHANGED recvVars

\* 'while not self.step_data_manager.data_queue.empty(): get_nowait()'
switch_clear_step(c) ==
    /\ ui_pc[c] = "sw_clear_step"
    /\ sink' = [sink EXCEPT !["step"].data_queue = << >>]
    /\ Goto(c, "sw_csv")
    /\ UNCHANGED <<now, calibrated_deadband, deadband_history, files,
                   websocket_messages, last_stats, packets, csv_calls>>
    /\ UNCHANGED modeVars
    /\ UNCHANGED recvVars

\* create_step_csv() / create_deadband_csv() / set_csv_file(experiment_<ts>.csv)
switch_csv(c, ioFail) ==
    /\ ui_pc[c] = "sw_csv"
    /\ Commit(SetCsvFile(World, new_mode[c], FreshCsv(new_mode[c], now), ioFail))
    /\ Goto(c, "sw_set_dm")
    /\ UNCHANGED <<now, last_stats, packets, csv_calls>>
    /\ UNCHANGED modeVars
    /\ UNCHANGED recvVars

\* self.udp_receiver.set_data_manager(<the manager of new_mode>)
switch_set_dm(c) ==
    /\ ui_pc[c] = "sw_set_dm"
    /\ set_data_manager(new_mode[c])
    /\ Goto(c, "sw_set_mode")
    /\ UNCHANGED modeVars

\* self.experiment_mode = new_mode
switch_set_mode(c) ==
    /\ ui_pc[c] = "sw_set_mode"
    /\ experiment_mode' = new_mode[c]
    /\ Goto(c, "sw_restart")
    /\ UNCHANGED <<mode_switch_lock, new_mode, switch_returns, selected_ip, otherVars>>
    /\ UNCHANGED <<sinkVars, recvVars>>

\* 'if self.network_manager.selected_ip: success = self.udp_receiver.start()'
switch_restart(c, bindFail) ==
    /\ ui_pc[c] = "sw_restart"
    /\ IF selected_ip
       THEN start(bindFail, FALSE)
       ELSE UNCHANGED <<sinkVars, recvVars>>
    /\ Goto(c, "sw_push")
    /\ UNCHANGED modeVars

\* self._push_websocket_message({'type': 'mode_change', 'mode': new_mode})
switch_push(c) ==
    /\ ui_pc[c] = "sw_push"
    /\ websocket_messages' =
           PushWebsocket(websocket_messages, [type |-> "mode_change", mode |-> new_mode[c]])
    /\ Goto(c, "sw_return")
    /\ UNCHANGED <<now, sink, calibrated_deadband, deadband_history, files,
                   last_stats, packets, csv_calls>>
    /\ UNCHANGED modeVars
    /\ UNCHANGED recvVars

\* the value of the return statement reached: a bare 'return' when the mode
\* is already the requested one, 'return True' at the end of the switch
SwitchReturnValue(pc) == IF pc = "sw_noop" THEN "None" ELSE "True"

\* the call returns and the 'with' statement gives the lock back
switch_return(c) ==
    /\ ui_pc[c] \in {"sw_return", "sw_noop"}
    /\ mode_switch_lock' = "free"
    /\ switch_returns' = [switch_returns EXCEPT ![c] = @ + 1]
    /\ switch_result' = [switch_result EXCEPT ![c] = SwitchReturnValue(ui_pc[c])]
    /\ Goto(c, "idle")
    /\ UNCHANGED <<experiment_mode, new_mode, selected_ip, mqttVars, lockVars,
                   csv_setter, mqtt_client, mqtt_loops, reads>>
    /\ UNCHANGED <<sinkVars, recvVars>>

\* NetworkManager.set_selected_ip(ip)
set_selected_ip ==
    /\ ~selected_ip
    /\ selected_ip' = TRUE
    /\ UNCHANGED <<ui_pc, experiment_mode, mode_switch_lock, new_mode, switch_returns,
                   otherVars>>
    /\ UNCHANGED <<sinkVars, recvVars>>

\* ------------------------------------------------ mode-switch specification
\* Two UI threads switch modes while the device sends and the workers receive.
SwitchNext ==
    \/ \E c \in Callers, m \in Kinds : switch_enter(c, m)
    \/ \E c \in Callers :
           switch_publish(c, Len(SwitchPublishes(experiment_mode, new_mode[c])))
    \/ \E c \in Callers : switch_stop(c)
    \/ \E c \in Callers : switch_join(c)
    \/ \E c \in Callers : switch_clear_pid(c)
    \/ \E c \in Callers : switch_clear_step(c)
    \/ \E c \in Callers : switch_csv(c, FALSE)
    \/ \E c \in Callers : switch_set_dm(c)
    \/ \E c \in Callers : switch_set_mode(c)
    \/ \E c \in Callers, bindFail \in BOOLEAN : switch_restart(c, bindFail)
    \/ \E c \in Callers : switch_push(c)
    \/ \E c \in Callers : switch_return(c)
    \/ set_selected_ip
    \/ \E p \in RecvDatagrams : send(p)
    \/ \E i \in 1..Len(workers) : receive_loop_test(i)
    \/ \E i \in 1..Len(workers) : receive_loop_recv(i)
    \/ \E i \in 1..Len(workers) : receive_loop_acquire(i)
    \/ \E i \in 1..Len(workers) : receive_loop_call(i)
    \/ \E i \in 1..Len(workers) : receive_loop_store(i, FALSE)

SwitchSpec == Init /\ [][SwitchNext]_vars

\* =================================================================== claims
Range(q) == {q[i] : i \in 1..Len(q)}

\* C2: in every sink the delivery queue never holds more than its capacity;
\* an add_data that finds the queue full leaves it as it is (drop-newest), and
\* every step leaves the queued entries and their order alone: the queue
\* either stays, loses its head to a reader, or gains one entry at its tail.
C2_QueueBoundedFifo ==
    [][\A k \in Kinds :
          LET q == sink[k].data_queue
              r == sink'[k].data_queue
          IN /\ Len(q) <= QueueMaxSize
             /\ Len(r) <= QueueMaxSize
             /\ \/ r = q
                \/ q # << >> /\ r = Tail(q)
                \/ Len(q) < QueueMaxSize /\ Len(r) = Len(q) + 1 /\ SubSeq(r, 1, Len(q)) = q
             /\ (Len(q) = QueueMaxSize /\ packets' = packets + 1) => r = q
      ]_vars

\* C2 witness: a sink whose queue is full and whose latest sample was dropped
C2_Witness ==
    \E k \in Kinds :
        /\ Len(sink[k].data_queue) = QueueMaxSize
        /\ sink[k].latest_data # EmptyDict
        /\ sink[k].latest_data \notin Range(sink[k].data_queue)

\* the sink's connection state
ConnectionState(s) == <<s.total_packets, s.last_packet_time, s.connection_status>>

\* C3 (as claimed): an add_data whose datagram fails to parse (too few fields
\* or a non-numeric field) changes neither latest_data, queue and log nor
\* total_packets, last_packet_time and connection_status.
C3_ParseFailureChangesNothing ==
    [][\A k \in Kinds : \A d \in DatagramsFor(k) :
          (add_data(k, d, FALSE) /\ (Len(d) < MinFields(k) \/ ~FieldsOk(k, d)))
              => /\ sink'[k].latest_data = sink[k].latest_data
                 /\ sink'[k].data_queue = sink[k].data_queue
                 /\ files' = files
                 /\ ConnectionState(sink'[k]) = ConnectionState(sink[k])
      ]_vars

\* C4 (as claimed): a header echo given to the step sink changes no sink
\* state, no file, and pushes no notification.
C4_HeaderEchoChangesNothing ==
    [][add_data("step", StepHeaderEcho, FALSE)
          => /\ sink' = sink
             /\ files' = files
             /\ websocket_messages' = websocket_messages
      ]_vars

\* index of the first motion_detected = 1 sample of the history, 0 if none
FirstMotion(h) ==
    IF \E i \in 1..Len(h.motion_detected) : h.motion_detected[i] = 1
        THEN CHOOSE i \in 1..Len(h.motion_detected) :
                 /\ h.motion_detected[i] = 1
                 /\ \A j \in 1..(i - 1) : h.motion_detected[j] # 1
        ELSE 0

\* C5 (as claimed): since the last clear_history, calibrated_deadband is the
\* pwm of the first sample with motion_detected = 1, whatever that pwm is, and
\* is the uncalibrated value 0 while there is no such sample.
C5_DeadbandLatched ==
    LET i == FirstMotion(deadband_history)
    IN calibrated_deadband = IF i = 0 THEN 0 ELSE deadband_history.pwm[i]

\* C6: get_connection_stats reports "Connection lost" exactly when a datagram
\* was received and more than 5 seconds have passed since the last one,
\* "Waiting for data" while none was received and "Connected" otherwise, and
\* the call changes no field of any sink.
C6_LostDerivedAtRead ==
    [][\A k \in Kinds :
          get_connection_stats(k)
              => /\ last_stats'[1].status =
                       IF sink[k].total_packets = 0 THEN "Waiting for data"
                       ELSE IF now - sink[k].last_packet_time[1] > StaleAfter
                            THEN "Connection lost"
                            ELSE "Connected"
                 /\ sink' = sink
                 /\ \A j \in Kinds : sink[j].connection_status # "Connection lost"
      ]_vars

\* C6 witness: a read has reported the lost status
C6_Witness ==
    /\ last_stats # None
    /\ last_stats[1].status = "Connection lost"
    /\ last_stats[1].total_packets >= 1

\* C8: the step sink ingests a 7-field datagram with applied_step equal to
\* its step_input (field 6) and an 8-field datagram with applied_step taken
\* from field 8, and stores nothing for a datagram of fewer than 7 fields.
C8_StepFormats ==
    [][\A d \in DatagramsFor("step") :
          add_data("step", d, FALSE) =>
              LET new == sink'["step"].latest_data
              IN /\ (Len(d) = 7 /\ StepFieldsOk(d))
                     => /\ new.full_data = d
                        /\ new.applied_step = Float(d[6])
                        /\ new.step_input = Float(d[6])
                 /\ (Len(d) = 8 /\ StepFieldsOk(d) /\ ~IsHeaderEcho(d))
                     => /\ new.full_data = d
                        /\ new.applied_step = Float(d[8])
                        /\ new.step_input = Float(d[6])
                 /\ Len(d) < 7
                     => /\ new = sink["step"].latest_data
                        /\ sink'["step"].data_queue = sink["step"].data_queue
                        /\ files' = files
      ]_vars

\* C8 witness: the step queue holds a 7-field and an 8-field sample whose
\* applied_step differs from its step_input
C8_Witness ==
    \E i, j \in 1..Len(sink["step"].data_queue) :
        LET a == sink["step"].data_queue[i]
            b == sink["step"].data_queue[j]
        IN /\ Len(a.full_data) = 7 /\ a.applied_step = a.step_input
           /\ Len(b.full_data) = 8 /\ b.applied_step # b.step_input


\* C7: a running receiver with the control sink installed that is delivered
\* one valid 8-field control datagram eventually has total_packets = 1, the
\* decoded fields in latest_data (distance = field 2) and a log made of the
\* header row followed by the datagram text.
C7_EndToEnd ==
    (/\ running
     /\ data_manager = "pid"
     /\ sent = 1
     /\ rx_buffer = <<PidFull>>)
    ~> (/\ sink["pid"].total_packets = 1
        /\ sink["pid"].latest_data # EmptyDict
        /\ sink["pid"].latest_data.distance = Float(PidFull[2])
        /\ sink["pid"].latest_data.full_data = PidFull
        /\ sink["pid"].latest_data.output_pid = Some(Float(PidFull[8]))
        /\ sink["pid"].csv_file # None
        /\ Exists(files, sink["pid"].csv_file[1])
        /\ files[sink["pid"].csv_file[1]] = <<PidHeader, PidFull>>)

\* C7 witness: the datagram has been ingested and logged
C7_Witness ==
    /\ running
    /\ sink["pid"].total_packets = 1
    /\ sink["pid"].latest_data # EmptyDict
    /\ sink["pid"].latest_data.full_data = PidFull
    /\ sink["pid"].csv_file # None
    /\ Exists(files, sink["pid"].csv_file[1])
    /\ files[sink["pid"].csv_file[1]] = <<PidHeader, PidFull>>

\* C9: start() called while running returns False and changes nothing: no
\* socket, no worker, no file, and the workers are where they were.
C9_StartWhileRunning ==
    [][((\E bindFail \in BOOLEAN : start(bindFail, FALSE)) /\ running)
          => /\ start_result' = Some(FALSE)
             /\ UNCHANGED <<sink, files, websocket_messages, calibrated_deadband,
                            deadband_history>>
             /\ UNCHANGED <<data_manager, data_manager_lock, running, socket, thread,
                            workers, rx_buffer, starts>>
      ]_vars

\* C9 witness: the last start() was refused while the receiver was running and
\* its worker was in the loop
C9_Witness ==
    /\ running
    /\ start_result = Some(FALSE)
    /\ thread # 0
    /\ workers[thread].pc = "recv"

\* total_packets over the three sinks
TotalIngested == sink["pid"].total_packets + sink["step"].total_packets
                     + sink["deadband"].total_packets

\* C10: set_data_manager never takes effect in the middle of an ingest: while
\* a worker is inside add_data the installed sink is the one it is ingesting
\* into; the ingest ends on that sink; a forwarded datagram is counted by the
\* sink installed at that moment and by no other, so every datagram forwarded
\* so far was ingested by exactly one sink.
C10_SwapNotMidIngest ==
    [][/\ \A i \in 1..Len(workers') :
              workers'[i].pc = "store" => workers'[i].dm = data_manager'
       /\ \A i \in 1..Len(workers) :
              (workers[i].pc = "store" /\ workers'[i].pc # "store")
                  => \A k \in Kinds \ {workers[i].dm} : sink'[k] = sink[k]
       /\ packets' = packets + 1
              => /\ sink'[data_manager].total_packets = sink[data_manager].total_packets + 1
                 /\ \A k \in Kinds \ {data_manager} : sink'[k] = sink[k]
       /\ TotalIngested' = packets'
      ]_vars

\* C10 witness: after a set_data_manager a worker is inside add_data of the
\* newly installed sink
C10_Witness ==
    \E i \in 1..Len(workers) :
        /\ workers[i].pc = "store"
        /\ workers[i].dm = "step"
        /\ data_manager = "step"


\* C1: two concurrent switch_experiment_mode calls never interleave their
\* bodies, and once both have returned experiment_mode is one of the two
\* targets and the receiver's data_manager is the manager of that mode;
\* whenever no switch is under way the flag and the installed sink agree.
C1_SwitchAtomic ==
    /\ \A c1, c2 \in Callers :
           (ui_pc[c1] \in SwitchBody /\ ui_pc[c2] \in SwitchBody) => c1 = c2
    /\ (\A c \in Callers : ui_pc[c] \notin SwitchBody) => data_manager = experiment_mode
    /\ (\A c \in Callers : ui_pc[c] = "idle" /\ switch_returns[c] >= 1)
           => /\ experiment_mode \in {new_mode[c] : c \in Callers}
              /\ data_manager = experiment_mode

\* C1 witness: both threads have returned from calls with the targets 'step'
\* and 'deadband', the second caller having waited for the lock
C1_Witness ==
    /\ \A c \in Callers : ui_pc[c] = "idle" /\ switch_returns[c] = 1
    /\ new_mode["ui1"] = "step"
    /\ new_mode["ui2"] = "deadband"
    /\ experiment_mode = "step"
    /\ data_manager = "step"
    /\ running

C12_BadDatagramKeepsLoop ==
    running => (thread # 0 /\ workers[thread].pc # "done")

\* C13: when the websocket callback raises during an ingest, the exception
\* stays inside add_data and the sample is ingested as with a callback that
\* succeeds: latest_data, the queue push and the csv append are the same
\* (total_packets and last_packet_time were set before), only the
\* notification is missing, and the worker goes on with its loop.
C13_CallbackErrorSwallowed ==
    [][\A i \in 1..Len(workers) :
          receive_loop_store_callback_raises(i) =>
              LET ok == ParseAndStore(World, workers[i].dm, workers[i].data[1], FALSE)
              IN /\ sink' = ok.sink
                 /\ files' = ok.files
                 /\ calibrated_deadband' = ok.cal
                 /\ deadband_history' = ok.hist
                 /\ websocket_messages' = websocket_messages
                 /\ workers'[i].pc = "loop"
      ]_vars

\* C13 witness: a sample was ingested and logged while its notification was
\* lost to a raising callback, and the worker is receiving again
C13_Witness ==
    /\ running
    /\ websocket_messages = << >>
    /\ sink["pid"].total_packets = 1
    /\ sink["pid"].latest_data # EmptyDict
    /\ Len(sink["pid"].data_queue) = 1
    /\ sink["pid"].csv_file # None
    /\ Exists(files, sink["pid"].csv_file[1])
    /\ Len(files[sink["pid"].csv_file[1]]) = 2
    /\ workers[thread].pc = "recv"

\* -------------------------------------------------------------------------
\* One UI thread switching modes while any of the MQTT publishes may fail.
PublishNext ==
    \/ \E m \in Kinds : switch_enter("ui1", m)
    \/ \E n \in 0..5 : switch_publish("ui1", n)
    \/ switch_stop("ui1")
    \/ switch_join("ui1")
    \/ switch_clear_pid("ui1")
    \/ switch_clear_step("ui1")
    \/ \E ioFail \in BOOLEAN : switch_csv("ui1", ioFail)
    \/ switch_set_dm("ui1")
    \/ switch_set_mode("ui1")
    \/ \E bindFail \in BOOLEAN : switch_restart("ui1", bindFail)
    \/ switch_push("ui1")
    \/ switch_return("ui1")
    \/ set_selected_ip
    \/ \E i \in 1..Len(workers) : receive_loop_test(i)
    \/ \E i \in 1..Len(workers) : receive_loop_recv(i)

PublishSpec == Init /\ [][PublishNext]_vars

\* C15: a call switch_experiment_mode(new_mode) to a different mode completes
\* the local transition whichever publishes fail: no step of the publish
\* phase ends the call, the push step hands the mode_change notification to
\* the push hook (which enqueues it unless the message queue is full), and
\* when the call returns experiment_mode and the receiver's sink are new_mode.
C15_SwitchCompletesLocally ==
    [][\A c \in Callers :
          LET note == [type |-> "mode_change", mode |-> new_mode[c]]
          IN /\ (ui_pc[c] = "sw_publish" /\ ui_pc'[c] # ui_pc[c]) => ui_pc'[c] = "sw_stop"
             /\ (ui_pc[c] = "sw_push" /\ ui_pc'[c] # ui_pc[c]) =>
                   IF Len(websocket_messages) < WsMaxSize
                   THEN websocket_messages' = Append(websocket_messages, note)
                   ELSE websocket_messages' = websocket_messages
             /\ (ui_pc[c] \in SwitchBody \ {"sw_noop"} /\ ui_pc'[c] = "idle") =>
                   /\ ui_pc[c] = "sw_return"
                   /\ experiment_mode = new_mode[c]
                   /\ data_manager = new_mode[c]]_vars

\* a switch from pid to step has returned although the publish of the stop
\* command failed: nothing was published
C15_Witness ==
    /\ ui_pc["ui1"] = "idle"
    /\ switch_returns["ui1"] = 1
    /\ published = {}
    /\ experiment_mode = "step"
    /\ data_manager = "step"
    /\ [type |-> "mode_change", mode |-> "step"] \in Range(websocket_messages)

\* the run-flag topic of a mode
RunFlagTopic(k) ==
    CASE k = "pid" -> "sync"
      [] k = "step" -> "step_sync"
      [] k = "deadband" -> "deadband_sync"

\* C19: when switch_experiment_mode leaves a mode and every publish goes
\* through, 'False' has been published on the run-flag topic of the mode
\* being left by the time the publish phase ends, which is before the
\* receiver's sink is swapped.
C19_StopPublishedOnLeave ==
    [][\A c \in Callers :
          (/\ ui_pc[c] = "sw_publish"
           /\ ui_pc'[c] = "sw_stop"
           /\ published' = published \cup Range(SwitchPublishes(experiment_mode, new_mode[c])))
          => <<RunFlagTopic(experiment_mode), "False">> \in published']_vars

\* -------------------------------------------------------------------------
\* Samples reach the active sink between mode switches; one UI thread
\* switches, and no sample arrives while a switch is under way.
DrainNext ==
    \/ \E m \in Kinds : switch_enter("ui1", m)
    \/ switch_publish("ui1", Len(SwitchPublishes(experiment_mode, new_mode["ui1"])))
    \/ switch_stop("ui1")
    \/ switch_join("ui1")
    \/ switch_clear_pid("ui1")
    \/ switch_clear_step("ui1")
    \/ switch_csv("ui1", FALSE)
    \/ switch_set_dm("ui1")
    \/ switch_set_mode("ui1")
    \/ switch_restart("ui1", FALSE)
    \/ switch_push("ui1")
    \/ switch_return("ui1")
    \/ set_selected_ip
    \/ \E d \in SinkDatagramsFor(data_manager) :
           ui_pc["ui1"] = "idle" /\ add_data(data_manager, d, FALSE)

DrainSpec == Init /\ [][DrainNext]_vars

\* C20: when a switch from mode A to mode B assigns the new mode (its drains
\* are behind it), neither the queue of A's sink nor the queue of B's sink
\* holds a sample; with no ingest during the switch, any sample there was
\* ingested before the switch began.
C20_QueuesDrainedBySwitch ==
    [][\A c \in Callers :
          (ui_pc[c] = "sw_set_mode" /\ ui_pc'[c] # "sw_set_mode")
          => /\ sink[experiment_mode].data_queue = << >>
             /\ sink[new_mode[c]].data_queue = << >>]_vars

\* -------------------------------------------------------------------------
\* MQTTParameterSync: confirmations arrive from the broker.
StatusTopics ==
    {"kp_status", "ki_status", "kd_status", "ref_status",
     "step_amplitude_status", "step_time_status", "step_direction_status",
     "step_vbatt_status"}

\* a topic outside the eight status topics
OtherTopic == "other"

MqttTopics == StatusTopics \cup {OtherTopic}

\* payloads: three numbers and one text float() rejects
MqttPayloads == {"3.0", "2.0", "0", "x"}

\* the if/elif chain on the four PID status topics
UpdateConfirmed(p, topic, v) ==
    CASE topic = "kp_status"  -> [p EXCEPT !.kp = Some(v)]
      [] topic = "ki_status"  -> [p EXCEPT !.ki = Some(v)]
      [] topic = "kd_status"  -> [p EXCEPT !.kd = Some(v)]
      [] topic = "ref_status" -> [p EXCEPT !.reference = Some(v)]
      [] OTHER -> p

\* the elif chain on the four step status topics; direction is int(value)
UpdateStepConfirmed(p, topic, v) ==
    CASE topic = "step_amplitude_status" -> [p EXCEPT !.amplitude = Some(v)]
      [] topic = "step_time_status"      -> [p EXCEPT !.time = Some(v)]
      [] topic = "step_direction_status" -> [p EXCEPT !.direction = Some((v \div 10) * 10)]
      [] topic = "step_vbatt_status"     -> [p EXCEPT !.vbatt = Some(v)]
      [] OTHER -> p

\* the object self.confirmed_params itself, as opposed to a copy of it
LiveConfirmedParams == "self.confirmed_params"

\* {'type': 'mqtt_update', 'params': self.confirmed_params}: the message holds
\* the live map; 'pushed' records what the map held when it was handed over
MqttUpdate(p) == [type |-> "mqtt_update", params |-> LiveConfirmedParams, pushed |-> p]

\* what a reader of message m finds under 'params'
ParamsOf(m) == IF m.params = LiveConfirmedParams THEN confirmed_params ELSE m.params

\* MQTTParameterSync._on_message(client, userdata, msg)
on_message(topic, payload) ==
    /\ mqtt_messages < MaxMessages
    /\ mqtt_messages' = mqtt_messages + 1
    /\ IF ~IsNumeric(payload)
       THEN UNCHANGED <<confirmed_params, step_confirmed_params, params_delivered,
                        websocket_messages>>
       ELSE LET cp == UpdateConfirmed(confirmed_params, topic, Float(payload))
                sp == UpdateStepConfirmed(step_confirmed_params, topic, Float(payload))
            IN /\ confirmed_params' = cp
               /\ step_confirmed_params' = sp
               /\ params_delivered' = Append(params_delivered, cp)
               /\ websocket_messages' =
                      PushWebsocket(PushWebsocket(websocket_messages, MqttUpdate(cp)),
                                    MqttUpdate(cp))
    /\ UNCHANGED <<now, sink, calibrated_deadband, deadband_history, files,
                   last_stats, packets, csv_calls>>
    /\ UNCHANGED <<recvVars, ui_pc, experiment_mode, mode_switch_lock, new_mode,
                   switch_returns, selected_ip, published, lockVars, callVars>>

\* dashboard._get_websocket_message(): get_nowait by the polling callback
get_websocket_message ==
    /\ websocket_messages # << >>
    /\ websocket_messages' = Tail(websocket_messages)
    /\ UNCHANGED <<now, sink, calibrated_deadband, deadband_history, files,
                   last_stats, packets, csv_calls>>
    /\ UNCHANGED <<recvVars, uiVars>>

MqttNext ==
    \/ \E topic \in MqttTopics, payload \in MqttPayloads : on_message(topic, payload)
    \/ get_websocket_message

MqttSpec == Init /\ [][MqttNext]_vars

\* C17: what was handed to the update-listener and to the push hook is a
\* snapshot: every queued mqtt_update notification still shows, under
\* 'params', the values the map held when the notification was pushed.
C17_DeliveredIsSnapshot ==
    \A j \in 1..Len(websocket_messages) :
        websocket_messages[j].type = "mqtt_update"
            => ParamsOf(websocket_messages[j]) = websocket_messages[j].pushed

\* C18: a message on a topic outside the eight status topics is ignored:
\* neither map changes, the listener is not called and nothing is pushed.
C18_UnknownTopicIgnored ==
    [][\A payload \in MqttPayloads :
          on_message(OtherTopic, payload)
          => /\ confirmed_params' = confirmed_params
             /\ step_confirmed_params' = step_confirmed_params
             /\ params_delivered' = params_delivered
             /\ websocket_messages' = websocket_messages]_vars

\* -------------------------------------------------------------------------
\* Two threads calling add_data of the same sinks at once.

\* a 'with self.data_lock' that does not wait for the lock
TakeDataLockAnyway(lock) == TRUE

\* 'with self.data_lock:' can be entered
CanTakeDataLock(lock) == lock = "free"

IngestUnchanged ==
    /\ UNCHANGED <<recvVars, ui_pc, experiment_mode, mode_switch_lock, new_mode,
                   switch_returns, selected_ip, mqttVars, callVars>>
    /\ UNCHANGED <<now, last_stats, csv_calls>>

\* add_data(data_string) is called by thread c on sink k
add_data_call(c, k, d) ==
    /\ ingest[c].pc = "idle"
    /\ packets < MaxPackets
    /\ packets' = packets + 1
    /\ ingest' = [ingest EXCEPT ![c] = [pc |-> "wait", k |-> k, d |-> d, n |-> 0, fields |-> 0]]
    /\ UNCHANGED <<sink, calibrated_deadband, deadband_history, files,
                   websocket_messages, data_lock>>
    /\ IngestUnchanged

\* 'with self.data_lock:' is entered
add_data_acquire(c) ==
    /\ ingest[c].pc = "wait"
    /\ CanTakeDataLock(data_lock[ingest[c].k])
    /\ data_lock' = [data_lock EXCEPT ![ingest[c].k] = c]
    /\ ingest' = [ingest EXCEPT ![c].pc = "count"]
    /\ UNCHANGED <<sink, calibrated_deadband, deadband_history, files,
                   websocket_messages, packets>>
    /\ IngestUnchanged

\* total_packets += 1, last_packet_time, connection_status
add_data_count(c) ==
    /\ ingest[c].pc = "count"
    /\ Commit(CountPacket(World, ingest[c].k, now))
    /\ ingest' = [ingest EXCEPT ![c].pc = "store",
                                ![c].n = sink[ingest[c].k].total_packets + 1]
    /\ UNCHANGED <<data_lock, packets>>
    /\ IngestUnchanged

\* the parse and, when it succeeds, latest_data, queue, notification and csv row
add_data_store(c) ==
    /\ ingest[c].pc = "store"
    /\ Commit(ParseAndStore(World, ingest[c].k, ingest[c].d, FALSE))
    /\ ingest' = [ingest EXCEPT ![c].pc = "release"]
    /\ UNCHANGED <<data_lock, packets>>
    /\ IngestUnchanged

\* the with block is left
add_data_release(c) ==
    /\ ingest[c].pc = "release"
    /\ data_lock' = [data_lock EXCEPT ![ingest[c].k] = "free"]
    /\ ingest' = [ingest EXCEPT ![c].pc = "idle"]
    /\ UNCHANGED <<sink, calibrated_deadband, deadband_history, files,
                   websocket_messages, packets>>
    /\ IngestUnchanged

IngestNext ==
    \/ \E c \in Callers, k \in {"pid", "step"} : \E d \in {PidFull, PidShort, PidOne} :
           add_data_call(c, k, d)
    \/ \E c \in Callers : add_data_acquire(c)
    \/ \E c \in Callers : add_data_count(c)
    \/ \E c \in Callers : add_data_store(c)
    \/ \E c \in Callers : add_data_release(c)
    \/ \A c \in Callers : ingest[c].pc = "idle"
          /\ set_csv_file("pid", FreshCsv("pid", now), FALSE)

IngestSpec == Init /\ [][IngestNext]_vars

\* C16: ingestion is atomic per sample for any interleaving of concurrent
\* add_data callers of one sink: the sample a caller stores carries the number
\* its own increment of total_packets produced, and that number is still the
\* latest one; with it latest_data becomes that sample, the queue gains it at
\* its tail (or is full and stays) and the log gains its row at its end, so
\* queue and log are in the order of the numbers; the numbers in the queue
\* increase strictly and none is above that of latest_data.
C16_IngestAtomic ==
    /\ [](\A k \in Kinds :
            LET q == sink[k].data_queue
            IN /\ \A i \in 1..Len(q), j \in 1..Len(q) :
                      i < j => q[i].packet_count < q[j].packet_count
               /\ q # << >> => /\ sink[k].latest_data # EmptyDict
                               /\ q[Len(q)].packet_count <= sink[k].latest_data.packet_count)
    /\ [][\A c \in Callers :
            LET k == ingest[c].k
                d == ingest[c].d
                rec == RecordOf(k, d, ingest[c].n)
                q == sink[k].data_queue
                f == sink[k].csv_file
            IN (ingest[c].pc = "store" /\ ingest'[c].pc = "release" /\ Parses(k, d))
               => /\ ingest[c].n = sink[k].total_packets
                  /\ sink'[k].latest_data = rec
                  /\ sink'[k].data_queue = IF Len(q) < QueueMaxSize THEN Append(q, rec) ELSE q
                  /\ f # None => files'[f[1]] = Append(files[f[1]], d)]_vars

\* one thread is storing its sample in the pid sink, whose queue and log
\* already hold an earlier sample, while the other thread waits for the lock
C16_Witness ==
    /\ ingest["ui1"].pc = "release"
    /\ ingest["ui1"].k = "pid"
    /\ ingest["ui2"].pc = "wait"
    /\ ingest["ui2"].k = "pid"
    /\ data_lock["pid"] = "ui1"
    /\ sink["pid"].data_queue = <<PidRecord(PidShort, 1), PidRecord(PidFull, 2)>>
    /\ sink["pid"].latest_data = PidRecord(PidFull, 2)
    /\ sink["pid"].csv_file # None
    /\ Len(files[sink["pid"].csv_file[1]]) = 3

\* -------------------------------------------------------------------------
\* handle_experiment_control: the start and stop buttons.

\* 'not x' is False for a value: a float other than 0.0
Truthy(x) == x # None /\ x[1] # 0

\* a start handler that does not look at the confirmed step parameters
StepGateAlwaysOpen(p) == TRUE

\* not (not confirmed.get('amplitude') or not confirmed.get('time'))
StepGateOpen(p) == Truthy(p.amplitude) /\ Truthy(p.time)

\* the first n messages of msgs reach the broker
PublishFirst(msgs, n) == published' = published \cup {msgs[j] : j \in 1..n}

ExperimentUnchanged ==
    UNCHANGED <<experiment_mode, mode_switch_lock, new_mode, switch_returns, selected_ip,
                confirmed_params, step_confirmed_params, params_delivered,
                mqtt_messages, lockVars, callVars>>

\* start button without a selected network, or in step mode with amplitude
\* or time unconfirmed: a warning is returned
experiment_start_refused(c) ==
    /\ ui_pc[c] = "idle"
    /\ ~selected_ip \/ (experiment_mode = "step" /\ ~StepGateOpen(step_confirmed_params))
    /\ UNCHANGED vars

\* start button in step mode, gate passed: stop PID, request the parameters;
\* a publish that raises ends the callback
experiment_start_step(c, n) ==
    /\ ui_pc[c] = "idle"
    /\ selected_ip
    /\ experiment_mode = "step"
    /\ StepGateOpen(step_confirmed_params)
    /\ n \in 0..2
    /\ PublishFirst(<< <<"sync", "False">>, <<"step_request_params", "1">> >>, n)
    /\ Goto(c, IF n = 2 THEN "ex_step_dm" ELSE "idle")
    /\ ExperimentUnchanged
    /\ UNCHANGED <<sinkVars, recvVars>>

\* self.udp_receiver.set_data_manager(self.step_data_manager)
experiment_step_set_dm(c) ==
    /\ ui_pc[c] = "ex_step_dm"
    /\ set_data_manager("step")
    /\ Goto(c, "ex_step_start")
    /\ ExperimentUnchanged
    /\ UNCHANGED published

\* step_data_manager.start_experiment(), create_step_csv(), publish step_sync 'True'
experiment_step_start(c, pubOk) ==
    /\ ui_pc[c] = "ex_step_start"
    /\ Commit(SetCsvFile([World EXCEPT !.sink["step"].experiment_active = TRUE],
                         "step", StepCsv(now), FALSE))
    /\ PublishFirst(<< <<"step_sync", "True">> >>, IF pubOk THEN 1 ELSE 0)
    /\ Goto(c, "idle")
    /\ ExperimentUnchanged
    /\ UNCHANGED <<now, last_stats, packets, csv_calls>>
    /\ UNCHANGED recvVars

\* start button in another mode: new PID csv, stop the step response on the device
experiment_start_pid(c, n) ==
    /\ ui_pc[c] = "idle"
    /\ selected_ip
    /\ experiment_mode # "step"
    /\ n \in 0..2
    /\ Commit(SetCsvFile(World, "pid", ExperimentCsv(now), FALSE))
    /\ PublishFirst(<< <<"step_sync", "False">>, <<"step_amplitude", "0.0">> >>, n)
    /\ Goto(c, IF n = 2 THEN "ex_pid_dm" ELSE "idle")
    /\ ExperimentUnchanged
    /\ UNCHANGED <<now, last_stats, packets, csv_calls>>
    /\ UNCHANGED recvVars

\* self.udp_receiver.set_data_manager(self.data_manager)
experiment_pid_set_dm(c) ==
    /\ ui_pc[c] = "ex_pid_dm"
    /\ set_data_manager("pid")
    /\ Goto(c, "ex_pid_start")
    /\ ExperimentUnchanged
    /\ UNCHANGED published

\* data_manager.start_experiment(), publish sync 'True'
experiment_pid_start(c, pubOk) ==
    /\ ui_pc[c] = "ex_pid_start"
    /\ sink' = [sink EXCEPT !["pid"].experiment_active = TRUE]
    /\ PublishFirst(<< <<"sync", "True">> >>, IF pubOk THEN 1 ELSE 0)
    /\ Goto(c, "idle")
    /\ ExperimentUnchanged
    /\ UNCHANGED <<now, calibrated_deadband, deadband_history, files,
                   websocket_messages, last_stats, packets, csv_calls>>
    /\ UNCHANGED recvVars

\* stop button: stop_experiment of the step or the PID sink, publish 'False'
experiment_stop(c, pubOk) ==
    LET k == IF experiment_mode = "step" THEN "step" ELSE "pid"
    IN /\ ui_pc[c] = "idle"
       /\ sink' = [sink EXCEPT ![k].experiment_active = FALSE]
       /\ PublishFirst(<< <<RunFlagTopic(k), "False">> >>, IF pubOk THEN 1 ELSE 0)
       /\ UNCHANGED ui_pc
       /\ ExperimentUnchanged
       /\ UNCHANGED <<now, calibrated_deadband, deadband_history, files,
                      websocket_messages, last_stats, packets, csv_calls>>
       /\ UNCHANGED recvVars

\* One UI thread switches modes, another presses start and stop, and the
\* device confirms step amplitude and step time.
ExperimentNext ==
    \/ \E m \in {"pid", "step"} : switch_enter("ui1", m)
    \/ switch_publish("ui1", Len(SwitchPublishes(experiment_mode, new_mode["ui1"])))
    \/ switch_stop("ui1")
    \/ switch_join("ui1")
    \/ switch_clear_pid("ui1")
    \/ switch_clear_step("ui1")
    \/ switch_csv("ui1", FALSE)
    \/ switch_set_dm("ui1")
    \/ switch_set_mode("ui1")
    \/ switch_restart("ui1", FALSE)
    \/ switch_push("ui1")
    \/ switch_return("ui1")
    \/ set_selected_ip
    \/ \E topic \in {"step_amplitude_status", "step_time_status"},
          payload \in {"3.0", "0", "x"} : on_message(topic, payload)
    \/ experiment_start_refused("ui2")
    \/ \E n \in 0..2 : experiment_start_step("ui2", n)
    \/ experiment_step_set_dm("ui2")
    \/ \E pubOk \in BOOLEAN : experiment_step_start("ui2", pubOk)
    \/ \E n \in 0..2 : experiment_start_pid("ui2", n)
    \/ experiment_pid_set_dm("ui2")
    \/ \E pubOk \in BOOLEAN : experiment_pid_start("ui2", pubOk)
    \/ \E pubOk \in BOOLEAN : experiment_stop("ui2", pubOk)

ExperimentSpec == Init /\ [][ExperimentNext]_vars

\* C14: a step-response run is never started while the confirmed step
\* amplitude or step time is still None: whenever the step sink's
\* experiment_active is set, 'True' has been published on step_sync, or the
\* start handler is past its gate, both values are known.
C14_StepStartGated ==
    (\/ sink["step"].experiment_active
     \/ <<"step_sync", "True">> \in published
     \/ \E c \in Callers : ui_pc[c] \in {"ex_step_dm", "ex_step_start"})
    => /\ step_confirmed_params.amplitude # None
       /\ step_confirmed_params.time # None

\* a step run has been started after the device confirmed amplitude and time
C14_Witness ==
    /\ sink["step"].experiment_active
    /\ <<"step_sync", "True">> \in published
    /\ experiment_mode = "step"
    /\ data_manager = "step"
    /\ step_confirmed_params.amplitude = Some(30)
    /\ step_confirmed_params.time = Some(30)
    /\ ui_pc["ui2"] = "idle"

\* C21: a switch during which the log file of the new mode's sink could not
\* be created is not reported as a success: its call does not return True.
C21_CsvFailureReported ==
    [][\A c \in Callers :
          (/\ ui_pc[c] = "sw_return"
           /\ ui_pc'[c] = "idle"
           /\ ~sink[new_mode[c]].initialized)
          => switch_result'[c] # "True"]_vars

\* C22: the receiver's data_manager_lock guards only the replacement of the
\* active-sink reference: no worker that is inside add_data (its sample
\* counted, the parse, the queue put and the log append still ahead) holds it.
C22_SwapLockNotHeldInIngest ==
    \A i \in 1..Len(workers) : workers[i].pc = "store" => data_manager_lock # i

\* C23: switch_experiment_mode(m) with m already the current mode changes
\* nothing: the call goes straight to its return, and neither its entry nor
\* its return publishes, touches the receiver (running, socket, worker, active
\* sink), a sink (queues, log target), a file, the notification queue or
\* experiment_mode.
C23_SameModeNoOp ==
    [][\A c \in Callers :
          /\ (ui_pc[c] = "idle" /\ ui_pc'[c] \in SwitchBody /\ new_mode'[c] = experiment_mode)
                => /\ ui_pc'[c] = "sw_noop"
                   /\ UNCHANGED <<sinkVars, recvVars, experiment_mode, published>>
          /\ (ui_pc[c] = "sw_noop" /\ ui_pc'[c] # "sw_noop")
                => /\ ui_pc'[c] = "idle"
                   /\ UNCHANGED <<sinkVars, recvVars, experiment_mode, published>>]_vars

\* in step mode with the receiver running, a call for step mode has returned
\* None: what the switch to step published is all that was ever published
C23_Witness ==
    /\ experiment_mode = "step"
    /\ data_manager = "step"
    /\ running
    /\ ui_pc["ui1"] = "idle"
    /\ ui_pc["ui2"] = "idle"
    /\ switch_result["ui1"] = "True"
    /\ switch_result["ui2"] = "None"
    /\ published = Range(SwitchPublishes("pid", "step"))
    /\ Len(websocket_messages) = 1

\* C24: once the receive loop has exited on its own (its worker has ended
\* although stop() was never called since the start), a start() whose bind
\* succeeds spawns a new worker and reports the receiver running.
C24_StartRevivesDeadReceiver ==
    [][(/\ thread # 0
        /\ workers[thread].pc = "done"
        /\ running
        /\ start(FALSE, FALSE))
       => /\ running'
          /\ thread' = Len(workers) + 1
          /\ workers'[thread'].pc = "loop"
          /\ start_result' = Some(TRUE)]_vars

\* -------------------------------------------------------------------------
\* set_csv_file on a UI thread while samples are ingested: the method holds
\* no lock, so an add_data can run between its statements.

\* what file f holds (nothing when it does not exist)
LinesOf(fs, f) == IF Exists(fs, f) THEN fs[f] ELSE << >>

\* 'self.csv_file = filename; self.initialized = True'
set_csv_file_assign(k, f) ==
    /\ csv_setter.pc = "idle"
    /\ csv_calls < MaxCsvCalls
    /\ csv_calls' = csv_calls + 1
    /\ sink' = [sink EXCEPT ![k].csv_file = Some(f), ![k].initialized = TRUE]
    /\ csv_setter' = [pc |-> "open", k |-> k, f |-> f, had |-> LinesOf(files, f)]
    /\ UNCHANGED <<now, calibrated_deadband, deadband_history, files,
                   websocket_messages, last_stats, packets>>
    /\ UNCHANGED <<recvVars, ui_pc, experiment_mode, mode_switch_lock, new_mode,
                   switch_returns, selected_ip, mqttVars, lockVars,
                   switch_result, mqtt_client, mqtt_loops, reads>>

\* 'with open(filename, 'w') as file: writer.writerow(header)', or the
\* except branch: 'self.initialized = False'
set_csv_file_open(ioFail) ==
    /\ csv_setter.pc = "open"
    /\ IF ioFail
       THEN /\ sink' = [sink EXCEPT ![csv_setter.k].initialized = FALSE]
            /\ UNCHANGED files
       ELSE /\ files' = WriteNew(files, csv_setter.f, HeaderOf(csv_setter.k))
            /\ UNCHANGED sink
    /\ csv_setter' = [csv_setter EXCEPT !.pc = "idle"]
    /\ UNCHANGED <<now, calibrated_deadband, deadband_history,
                   websocket_messages, last_stats, packets, csv_calls>>
    /\ UNCHANGED <<recvVars, ui_pc, experiment_mode, mode_switch_lock, new_mode,
                   switch_returns, selected_ip, mqttVars, lockVars,
                   switch_result, mqtt_client, mqtt_loops, reads>>

CsvNext ==
    \/ \E k \in {"pid", "step"} : set_csv_file_assign(k, FreshCsv(k, now))
    \/ \E ioFail \in BOOLEAN : set_csv_file_open(ioFail)
    \/ \E k \in {"pid", "step"} : \E d \in SinkDatagramsFor(k) : add_data(k, d, FALSE)

CsvSpec == Init /\ [][CsvNext]_vars

\* C25: a log file holds its header row followed by the rows ingested since
\* it was set as log target: creating the file does not discard a row that
\* was appended to it after it became the target.
C25_NoRowLostByCreation ==
    [][(csv_setter.pc = "open" /\ csv_setter'.pc = "idle")
       => LinesOf(files, csv_setter.f) = csv_setter.had]_vars

\* -------------------------------------------------------------------------
\* handle_deadband_calibration: the start button of the deadband tab.

\* 'self.experiment_mode = 'deadband'' (no lock is taken)
deadband_start(c) ==
    /\ ui_pc[c] = "idle"
    /\ selected_ip
    /\ experiment_mode' = "deadband"
    /\ Goto(c, "db_set_dm")
    /\ UNCHANGED <<mode_switch_lock, new_mode, switch_returns, selected_ip, otherVars>>
    /\ UNCHANGED <<sinkVars, recvVars>>

\* self.udp_receiver.set_data_manager(self.deadband_data_manager)
deadband_set_dm(c) ==
    /\ ui_pc[c] = "db_set_dm"
    /\ set_data_manager("deadband")
    /\ Goto(c, "db_prepare")
    /\ ExperimentUnchanged
    /\ UNCHANGED published

\* clear_history(), create_deadband_csv() and the three publishes; an
\* exception of a publish is caught and shown
deadband_prepare(c, n) ==
    /\ ui_pc[c] = "db_prepare"
    /\ n \in 0..3
    /\ Commit(SetCsvFile([World EXCEPT !.hist = EmptyHistory, !.cal = 0],
                         "deadband", DeadbandCsv(now), FALSE))
    /\ PublishFirst(<< <<"deadband_direction", "direction">>,
                       <<"deadband_threshold", "threshold">>,
                       <<"deadband_sync", "True">> >>, n)
    /\ Goto(c, "idle")
    /\ ExperimentUnchanged
    /\ UNCHANGED <<now, last_stats, packets, csv_calls>>
    /\ UNCHANGED recvVars

\* All the UI operations that install a sink: mode switches on one thread;
\* experiment start and stop and calibration start on another.
UiNext ==
    \/ \E m \in Kinds : switch_enter("ui1", m)
    \/ switch_publish("ui1", Len(SwitchPublishes(experiment_mode, new_mode["ui1"])))
    \/ switch_stop("ui1")
    \/ switch_join("ui1")
    \/ switch_clear_pid("ui1")
    \/ switch_clear_step("ui1")
    \/ switch_csv("ui1", FALSE)
    \/ switch_set_dm("ui1")
    \/ switch_set_mode("ui1")
    \/ switch_restart("ui1", FALSE)
    \/ switch_push("ui1")
    \/ switch_return("ui1")
    \/ set_selected_ip
    \/ step_confirmed_params.amplitude = None /\ on_message("step_amplitude_status", "3.0")
    \/ step_confirmed_params.amplitude # None /\ step_confirmed_params.time = None
          /\ on_message("step_time_status", "3.0")
    \/ experiment_start_refused("ui2")
    \/ experiment_start_step("ui2", 2)
    \/ experiment_step_set_dm("ui2")
    \/ experiment_step_start("ui2", TRUE)
    \/ experiment_start_pid("ui2", 2)
    \/ experiment_pid_set_dm("ui2")
    \/ experiment_pid_start("ui2", TRUE)
    \/ experiment_stop("ui2", TRUE)
    \/ deadband_start("ui2")
    \/ deadband_set_dm("ui2")
    \/ deadband_prepare("ui2", 3)

UiSpec == Init /\ [][UiNext]_vars

\* C26: whenever no UI operation is under way, the receiver's active sink is
\* the sink of the current experiment_mode.
C26_SinkMatchesMode ==
    (\A c \in Callers : ui_pc[c] = "idle") => data_manager = experiment_mode

\* C27: only the worker of the latest start() receives: a worker spawned by
\* an earlier start() never takes a datagram from the socket again.
C27_OldWorkerNeverReceives ==
    [][\A i \in 1..Len(workers) :
          (workers[i].pc = "recv" /\ workers'[i].pc = "acquire") => i = thread]_vars

\* -------------------------------------------------------------------------
\* The three locks together: a UI thread switches modes (mode_switch_lock,
\* and inside it data_manager_lock for the swap), the worker ingests
\* (data_manager_lock, and inside it the sink's data_lock), another UI thread
\* reads the active sink (data_lock), the MQTT thread handles confirmations
\* (no lock).

\* a get_latest_data that forgets to give the lock back
KeepsDataLock(c) == c

\* the data_lock after 'with self.data_lock' is left
ReleasedDataLock(c) == "free"

\* the name under which worker i holds a data_lock
WorkerName(i) == <<"worker1", "worker2", "worker3", "worker4", "worker5">>[i]

LockedWorkerUnchanged ==
    /\ UNCHANGED <<ui_pc, experiment_mode, mode_switch_lock, new_mode, switch_returns,
                   selected_ip, mqttVars, ingest, callVars>>
    /\ UNCHANGED <<now, last_stats, csv_calls>>
    /\ UNCHANGED <<data_manager, running, socket, thread, rx_buffer, sent, starts,
                   start_result>>

\* add_data is called and enters 'with self.data_lock'; statistics updated
receive_loop_call_locked(i) ==
    /\ workers[i].pc = "call"
    /\ CanTakeDataLock(data_lock[data_manager])
    /\ data_lock' = [data_lock EXCEPT ![data_manager] = WorkerName(i)]
    /\ workers' = [workers EXCEPT ![i].pc = "store", ![i].dm = data_manager]
    /\ Commit(CountPacket(World, data_manager, now))
    /\ packets' = packets + 1
    /\ UNCHANGED data_manager_lock
    /\ LockedWorkerUnchanged

\* add_data parses and stores, leaves data_lock and returns; the worker
\* leaves data_manager_lock
receive_loop_store_locked(i) ==
    /\ workers[i].pc = "store"
    /\ Commit(ParseAndStore(World, workers[i].dm, workers[i].data[1], FALSE))
    /\ workers' = [workers EXCEPT ![i] = NewWorker]
    /\ data_lock' = [data_lock EXCEPT ![workers[i].dm] = "free"]
    /\ data_manager_lock' = 0
    /\ UNCHANGED packets
    /\ LockedWorkerUnchanged

ReaderUnchanged ==
    /\ UNCHANGED <<sinkVars, recvVars>>
    /\ UNCHANGED <<ui_pc, experiment_mode, mode_switch_lock, new_mode, switch_returns,
                   selected_ip, mqttVars, switch_result, csv_setter, mqtt_client,
                   mqtt_loops>>

\* get_latest_data() is called on sink k
get_latest_data_call(c, k) ==
    /\ ingest[c].pc = "idle"
    /\ reads < MaxReads
    /\ reads' = reads + 1
    /\ ingest' = [ingest EXCEPT ![c].pc = "read_wait", ![c].k = k]
    /\ UNCHANGED data_lock
    /\ ReaderUnchanged

\* 'with self.data_lock:' is entered
get_latest_data_acquire(c) ==
    /\ ingest[c].pc = "read_wait"
    /\ CanTakeDataLock(data_lock[ingest[c].k])
    /\ data_lock' = [data_lock EXCEPT ![ingest[c].k] = c]
    /\ ingest' = [ingest EXCEPT ![c].pc = "reading"]
    /\ UNCHANGED reads
    /\ ReaderUnchanged

\* 'return self.latest_data.copy()': the with block is left
get_latest_data_return(c) ==
    /\ ingest[c].pc = "reading"
    /\ data_lock' = [data_lock EXCEPT ![ingest[c].k] = ReleasedDataLock(c)]
    /\ ingest' = [ingest EXCEPT ![c].pc = "idle"]
    /\ UNCHANGED reads
    /\ ReaderUnchanged

SwitchStepOf(c) ==
    \/ switch_publish(c, Len(SwitchPublishes(experiment_mode, new_mode[c])))
    \/ switch_stop(c)
    \/ switch_join(c)
    \/ switch_clear_pid(c)
    \/ switch_clear_step(c)
    \/ switch_csv(c, FALSE)
    \/ switch_set_dm(c)
    \/ switch_set_mode(c)
    \/ switch_restart(c, FALSE)
    \/ switch_push(c)
    \/ switch_return(c)

LockedWorkerStepOf(i) ==
    /\ i \in 1..Len(workers)
    /\ \/ receive_loop_test(i)
       \/ receive_loop_recv(i)
       \/ receive_loop_acquire(i)
       \/ receive_loop_call_locked(i)
       \/ receive_loop_store_locked(i)

ReaderStepOf(c) == get_latest_data_acquire(c) \/ get_latest_data_return(c)

LockNext ==
    \/ \E m \in {"pid", "step"} : SwitchCalls < MaxLockSwitches /\ switch_enter("ui1", m)
    \/ SwitchStepOf("ui1")
    \/ set_selected_ip
    \/ ui_pc["ui1"] = "idle" /\ selected_ip /\ starts = 0
          /\ start(FALSE, FALSE) /\ UNCHANGED uiVars
    \/ send(PidFull)
    \/ \E i \in 1..(MaxStarts + 1) : LockedWorkerStepOf(i)
    \/ get_latest_data_call("ui2", data_manager)
    \/ ReaderStepOf("ui2")
    \/ confirmed_params.kp = None /\ on_message("kp_status", "3.0")

LockSpec == Init /\ [][LockNext]_vars

\* C28: no interleaving deadlocks.  Locks are nested only in the order
\* mode_switch_lock, data_manager_lock, data_lock, and nobody waits for a
\* thread that cannot move: whoever holds a data_lock is inside its critical
\* section and can run to the release; the worker that holds
\* data_manager_lock waits at most for a data_lock; the thread that holds
\* mode_switch_lock is inside the switch and can take its next step (the
\* join of stop() included) unless it waits for data_manager_lock.
C28_NoDeadlock ==
    /\ \A k \in Kinds :
          /\ data_lock[k] \in Callers =>
                /\ ingest[data_lock[k]].pc = "reading"
                /\ ENABLED get_latest_data_return(data_lock[k])
          /\ \A i \in 1..Len(workers) :
                data_lock[k] = WorkerName(i) =>
                    /\ workers[i].pc = "store"
                    /\ data_manager_lock = i
                    /\ ENABLED receive_loop_store_locked(i)
    /\ data_manager_lock # 0 =>
          /\ workers[data_manager_lock].pc \in {"call", "store"}
          /\ workers[data_manager_lock].pc = "call" =>
                \/ ENABLED receive_loop_call_locked(data_manager_lock)
                \/ data_lock[data_manager] # "free"
    /\ \A c \in Callers :
          mode_switch_lock = c =>
              /\ ui_pc[c] \in SwitchBody
              /\ \/ ENABLED SwitchStepOf(c)
                 \/ ui_pc[c] = "sw_set_dm" /\ data_manager_lock # 0

\* the switch waits for data_manager_lock, which the worker holds while it
\* waits for the data_lock that the reader holds
C28_Witness ==
    /\ ui_pc["ui1"] = "sw_set_dm"
    /\ mode_switch_lock = "ui1"
    /\ data_manager_lock # 0
    /\ workers[data_manager_lock].pc = "call"
    /\ data_lock[data_manager] = "ui2"
    /\ ingest["ui2"].pc = "reading"

\* -------------------------------------------------------------------------
\* DeadbandDataManager.add_data statement by statement, against clear_history
\* on a UI thread (which takes no lock).

HistoryFields == <<"time", "pwm", "distance", "initial_distance", "motion_detected">>

\* self.deadband_history[name].append(self.latest_data[name])
AppendField(h, name, rec) == [h EXCEPT ![name] = Append(@, rec[name])]

HistoryUnchanged ==
    UNCHANGED <<recvVars, ui_pc, experiment_mode, mode_switch_lock, new_mode,
                switch_returns, selected_ip, mqttVars, callVars, now, last_stats,
                csv_calls>>

\* add_data up to the assignment of latest_data, for a datagram that parses
deadband_add_begin(c, d) ==
    /\ ingest[c].pc = "idle"
    /\ packets < MaxPackets
    /\ Parses("deadband", d)
    /\ CanTakeDataLock(data_lock["deadband"])
    /\ packets' = packets + 1
    /\ data_lock' = [data_lock EXCEPT !["deadband"] = c]
    /\ LET counted == UpdateStatistics(sink["deadband"], now)
       IN /\ sink' = [sink EXCEPT !["deadband"] =
                         [counted EXCEPT !.latest_data =
                             RecordOf("deadband", d, counted.total_packets)]]
          /\ ingest' = [ingest EXCEPT ![c] =
                           [pc |-> "hist", k |-> "deadband", d |-> d,
                            n |-> counted.total_packets, fields |-> 0]]
    /\ UNCHANGED <<calibrated_deadband, deadband_history, files, websocket_messages>>
    /\ HistoryUnchanged

\* the next of the five append statements
deadband_append_field(c) ==
    /\ ingest[c].pc = "hist"
    /\ ingest[c].fields < Len(HistoryFields)
    /\ deadband_history' = AppendField(deadband_history,
                                       HistoryFields[ingest[c].fields + 1],
                                       sink["deadband"].latest_data)
    /\ ingest' = [ingest EXCEPT ![c].fields = @ + 1]
    /\ UNCHANGED <<sink, calibrated_deadband, files, websocket_messages, packets,
                   data_lock>>
    /\ HistoryUnchanged

\* the rest of add_data: latch, queue, csv row; data_lock is left
deadband_add_finish(c) ==
    /\ ingest[c].pc = "hist"
    /\ ingest[c].fields = Len(HistoryFields)
    /\ LET rec == sink["deadband"].latest_data
           f == sink["deadband"].csv_file
       IN /\ calibrated_deadband' = LatchDeadband(calibrated_deadband, rec)
          /\ sink' = [sink EXCEPT !["deadband"].data_queue = QueuePut(@, rec)]
          /\ websocket_messages' =
                IF HasCallback("deadband")
                THEN PushWebsocket(websocket_messages,
                                   [type |-> UpdateType("deadband"), data |-> rec])
                ELSE websocket_messages
          /\ files' = IF f # None THEN AppendLine(files, f[1], ingest[c].d) ELSE files
    /\ data_lock' = [data_lock EXCEPT !["deadband"] = "free"]
    /\ ingest' = [ingest EXCEPT ![c].pc = "idle"]
    /\ UNCHANGED <<deadband_history, packets>>
    /\ HistoryUnchanged

HistoryNext ==
    \/ \E d \in {DbMove60, DbMove75} : deadband_add_begin("ui1", d)
    \/ deadband_append_field("ui1")
    \/ deadband_add_finish("ui1")
    \/ clear_history

HistorySpec == Init /\ [][HistoryNext]_vars

\* C29: whenever no add_data is between its appends, the five lists of the
\* deadband history have the same length.
C29_HistoryListsAligned ==
    (\A c \in Callers : ingest[c].pc # "hist")
    => \A a \in Range(HistoryFields), b \in Range(HistoryFields) :
          Len(deadband_history[a]) = Len(deadband_history[b])

\* -------------------------------------------------------------------------
\* MQTTParameterSync.connect / disconnect and the clients' network loops

MaxConnects == 2

ConnectUnchanged ==
    UNCHANGED <<sinkVars, recvVars, ui_pc, experiment_mode, mode_switch_lock,
                new_mode, switch_returns, selected_ip, mqttVars, lockVars,
                switch_result, csv_setter, reads>>

\* MQTTParameterSync.connect(broker_ip, broker_port): a new mqtt.Client is
\* assigned to self.client; client.connect raising (fail) skips loop_start
connect(fail) ==
    /\ mqtt_client < MaxConnects
    /\ mqtt_client' = mqtt_client + 1
    /\ mqtt_loops' = IF fail THEN mqtt_loops ELSE mqtt_loops \cup {mqtt_client + 1}
    /\ ConnectUnchanged

\* MQTTParameterSync.disconnect(): loop_stop and disconnect of self.client only
disconnect ==
    /\ mqtt_client # 0
    /\ mqtt_client' = mqtt_client
    /\ mqtt_loops' = mqtt_loops \ {mqtt_client}
    /\ ConnectUnchanged

\* a status message on the broker is handed to _on_message by a running loop
loop_on_message(topic, payload) ==
    /\ mqtt_loops # {}
    /\ on_message(topic, payload)

ConnectNext ==
    \/ \E fail \in BOOLEAN : connect(fail)
    \/ disconnect
    \/ \E topic \in MqttTopics, payload \in MqttPayloads : loop_on_message(topic, payload)

ConnectSpec == Init /\ [][ConnectNext]_vars

\* C30: at most one client has a running network loop, so that a status
\* message is handled once.
C30_AtMostOneLiveClient == Cardinality(mqtt_loops) <= 1

====
